---- MODULE Spec2Model ----
(***************************************************************************)
(* Layout core of the knowledge-map application.                           *)
(*                                                                         *)
(*   placeNodes            src/src/services/nodePositioning.js             *)
(*   territory packing     src/unnamed/part_000 (generateMap)              *)
(*                                                                         *)
(* Three specifications share the variables:                               *)
(*   Spec      placeNodes as one step, over a bounded family of graphs     *)
(*   SpecDfs   placeNodes with the depth search run frame by frame         *)
(*   SpecPack  generateMap: request, territory grid, member placement      *)
(***************************************************************************)
EXTENDS Integers, Sequences, FiniteSets, TLC

\* ------------------------------------------------------------------------
\* Program constants (nodePositioning.js)
\* ------------------------------------------------------------------------
VERTICAL_SPACING == 150
HORIZONTAL_SPACING == 200
GROUP_SPACING == 100
START_X == 100
START_Y == 100

\* Territory positioning constants (generateMap's module)
TERRITORY_PADDING == 20
TERRITORY_HEADER == 60
NODE_WIDTH == 180
NODE_HEIGHT == 80
NODE_SPACING_X == 20
NODE_SPACING_Y == 20
COLS_PER_TERRITORY == 2
TERRITORY_SPACING == 50
TERRITORY_COLS == 3

\* ------------------------------------------------------------------------
\* Bounds of the model
\* ------------------------------------------------------------------------
\* Spec: node lists of 1..MaxNodes nodes, at most MaxEdges edges of which at
\* most MaxOther are not a plain dependency edge between two listed nodes
\* (a hierarchy/relationship edge, or an edge with a dangling endpoint).
MaxNodes == 4
MaxEdges == 4
MaxOther == 2
\* Spec, typed node lists: at most MaxTypedEdges dependency edges.
MaxTypedEdges == 2
\* SpecTwice, untyped node lists: at most TwiceMaxEdges edges.
TwiceMaxEdges == 3
\* SpecGroup: 1..GroupMaxNodes nodes with territory membership, at most
\* GroupMaxEdges dependency edges.
GroupMaxNodes == 3
GroupMaxEdges == 1
\* SpecOpaque: 1..OpaqueMaxNodes nodes, at most OpaqueMaxHier dependency or
\* hierarchy edges and at most OpaqueMaxOther edges of another type.
OpaqueMaxNodes == 3
OpaqueMaxHier == 2
OpaqueMaxOther == 1
\* SpecDelete: 2..DeleteMaxNodes nodes, at most DeleteMaxEdges edges, one or
\* two territories whose first lists at most DeleteMaxMembers ids.
DeleteMaxNodes == 3
DeleteMaxEdges == 2
DeleteMaxMembers == 2
\* SpecDeep: the call stack of the engine holds CallStackLimit activations
\* of findLongestPathToNode (thousands in an engine; the source sets no
\* limit of its own); the inputs are chains of up to CallStackLimit + 2 nodes.
CallStackLimit == 6
\* SpecFlight: at most MaxQuickAdds nodes are added by hand.
MaxQuickAdds == 1
\* SpecRetry: callWithRetry is called with retries in 0..MaxRetries (both
\* callers pass 3, the default)
MaxRetries == 4

\* SpecPacked: a generated territory of 1..PackedMaxMembers nodes
PackedMaxMembers == 2

\* SpecSave: at most MaxRequests save requests, the clock runs to MaxNow ms
MaxRequests == 3
MaxNow == 1500

\* SpecDfs: 1..DfsMaxNodes listed nodes, at most DfsMaxEdges edges between the
\* listed ids and the dangling id, at most DfsMaxOther of them not of type
\* dependency.
DfsMaxNodes == 2
DfsMaxEdges == 3
DfsMaxOther == 1

\* SpecPack: a generation response has at most MaxTerritories territories and
\* at most MaxOrphans nodes in no territory. With up to FullTerritories
\* territories each has any number 0..MaxMembers of members, with more each
\* has 0, 1 or MaxMembers.
MaxTerritories == 4
FullTerritories == 2
MaxMembers == 12
MaxOrphans == 1

\* Node ids in list order; "X" is never the id of a listed node.
IdSeq == <<"A", "B", "C", "D", "E", "F">>
DanglingId == "X"
EdgeTypes == {"dependency", "hierarchy", "relationship"}
\* "" stands for a node without a type field
NodeTypes == {"", "concept", "entity"}

VARIABLES
    nodes,      \* the node array: <<[id, type, x, y], ...>>
    edges,      \* the edge array, as the set of its [source, target, type];
                \* where deleteNode runs, the array itself:
                \*   <<[id, source, target, type], ...>>
    phase,      \* "input" before placeNodes has run, "placed" after
    \* the depth search of pass 1, run frame by frame (SpecDfs)
    cursor,     \* index of the node pass 1 is at; 0 when pass 1 is not stepped
    stack,      \* activations of findLongestPathToNode, outermost first:
                \*   [nodeId, pc, todo, maxDepth]
                \*   pc = "enter": at the visited.has test (line 57)
                \*   pc = "loop":  in the for-of over incomingEdges (line 71),
                \*                 todo = the incoming edges not yet visited
    visited,    \* the Set shared by the activations of one top-level call
    \* generateMap (SpecPack)
    territories,    \* the territory array: <<[id, x, y, w, h, nodeIds], ...>>
    isGenerating,   \* the in-flight guard
    \* node dragging (SpecDrag)
    dragging,   \* the DragState: [active, id, ox, oy]; id "" stands for null
    pointer,    \* svgToWorld(e) of the last mouse event handled
    lastCall,   \* the handler that ran last
    logged,     \* whether that run wrote the boundary message to the console
    detached,   \* node objects spliced out of the node array by deleteNode
    \* the generation request (SpecFlight)
    inFlight,   \* number of fetch('/api/generate') calls not yet answered
    response,   \* what the last generateMap call received: [outcome, ...]
                \* with outcome "none" before the first call, "pending"
                \* while the call awaits its answer, "error" or "map"
    \* usePersistence (SpecSave)
    saveTimeout,    \* the module variable: 0 stands for null, else a timer id
    timers,         \* the timers set and neither fired nor cleared:
                    \*   {[id, data, due], ...}
    storage,        \* localStorage: [primary, backup]; 0 stands for no item
    now,            \* the clock, in milliseconds
    requests,       \* the save requests made so far: <<[kind, valid, at], ...>>
                    \* with kind "debounced" or "immediate"; request k passes
                    \* the data [seq |-> k, valid]; a stored item is the seq
                    \* of the data it was serialised from
    \* LLMService.callWithRetry (SpecRetry)
    retries,        \* the parameter
    attemptIndex,   \* the loop variable i
    retryPc,        \* "idle", "calling" (awaiting apiCall), "waiting" (awaiting
                    \* the delay), "returned", "thrownBusy", "thrownError"
    calls           \* the outcome of every apiCall made so far, in order

layoutVars == <<nodes, edges, phase>>
dfsVars == <<cursor, stack, visited>>
packVars == <<territories, isGenerating>>
dragVars == <<dragging, pointer, lastCall, logged, detached>>
netVars == <<inFlight, response>>
saveVars == <<saveTimeout, timers, storage, now, requests>>
retryVars == <<retries, attemptIndex, retryPc, calls>>
ioVars == <<inFlight, response, saveTimeout, timers, storage, now, requests,
            retries, attemptIndex, retryPc, calls>>
vars == <<nodes, edges, phase, cursor, stack, visited, territories, isGenerating,
          dragging, pointer, lastCall, logged, detached,
          inFlight, response, saveTimeout, timers, storage, now, requests,
          retries, attemptIndex, retryPc, calls>>

\* ------------------------------------------------------------------------
\* Helpers
\* ------------------------------------------------------------------------
Max2(a, b) == IF a >= b THEN a ELSE b

MaxOf(S) == CHOOSE m \in S : \A k \in S : k <= m

MinOf(S) == CHOOSE m \in S : \A k \in S : m <= k

RECURSIVE SumLen(_, _)
SumLen(groups, upto) ==
    IF upto = 0 THEN 0 ELSE Len(groups[upto]) + SumLen(groups, upto - 1)

RECURSIVE SubsetsUpTo(_, _)
SubsetsUpTo(S, k) ==
    IF k = 0 THEN {{}}
    ELSE LET prev == SubsetsUpTo(S, k - 1)
         IN  prev \cup {T \cup {x} : T \in prev, x \in S}

\* ------------------------------------------------------------------------
\* nodePositioning.js
\* ------------------------------------------------------------------------
\* mutant: the type test dropped, every edge counts
Mut_IsHierarchical_AnyType(e) == TRUE

\* e.type === 'hierarchy' || e.type === 'dependency'
IsHierarchical(e) == e.type = "hierarchy" \/ e.type = "dependency"

\* edges.filter(e => hierarchical(e) && e.target === nodeId)
IncomingEdges(nodeId, es) == {e \in es : IsHierarchical(e) /\ e.target = nodeId}

\* DFS with an on-stack visited set. The callee adds nodeId on entry and
\* deletes it on exit, so every recursive call sees visited + {nodeId}.
RECURSIVE findLongestPathToNode(_, _, _)

\* mutant: Math.min in place of Math.max (shortest instead of longest path)
Mut_findLongestPathToNode_Min(nodeId, es, vis) ==
    IF nodeId \in vis THEN 0
    ELSE LET incomingEdges == IncomingEdges(nodeId, es)
         IN  IF incomingEdges = {} THEN 0
             ELSE MinOf({findLongestPathToNode(e.source, es, vis \cup {nodeId})
                            : e \in incomingEdges}) + 1

findLongestPathToNode(nodeId, es, vis) ==
    IF nodeId \in vis THEN 0
    ELSE LET incomingEdges == IncomingEdges(nodeId, es)
         IN  IF incomingEdges = {} THEN 0
             ELSE MaxOf({0} \cup
                        {findLongestPathToNode(e.source, es, vis \cup {nodeId})
                            : e \in incomingEdges}) + 1

calculateYPosition(node, es) ==
    IF IncomingEdges(node.id, es) = {} THEN START_Y
    ELSE START_Y + findLongestPathToNode(node.id, es, {}) * VERTICAL_SPACING

\* node.type || 'default'
TypeKey(n) == IF n.type = "" THEN "default" ELSE n.type

\* Keys of a Map in insertion order: the order of first occurrence.
RECURSIVE KeyOrder(_, _)
KeyOrder(ns, acc) ==
    IF ns = <<>> THEN acc
    ELSE LET k == TypeKey(Head(ns))
         IN  KeyOrder(Tail(ns),
                      IF \E i \in 1..Len(acc) : acc[i] = k THEN acc
                      ELSE Append(acc, k))

\* mutant: no grouping, the tier is one group in array order
Mut_groupByType_OneGroup(ns) == IF ns = <<>> THEN <<>> ELSE <<ns>>

groupByType(ns) ==
    LET keys == KeyOrder(ns, <<>>)
    IN  [g \in 1..Len(keys) |-> SelectSeq(ns, LAMBDA n : TypeKey(n) = keys[g])]

\* Array.prototype.findIndex(n => n.id === id), 1-based; 0 stands for -1
findIndex(ns, id) ==
    LET hits == {i \in 1..Len(ns) : ns[i].id = id}
    IN  IF hits = {} THEN 0 ELSE MinOf(hits)

\* mutant: nodesBeforeGroup left out of the slot number
Mut_calculateXPosition_NoOffset(node, allNodes) ==
    LET sameLevelNodes == SelectSeq(allNodes, LAMBDA n : n.y = node.y)
        groups == groupByType(sameLevelNodes)
        found == {i \in 1..Len(groups) : findIndex(groups[i], node.id) # 0}
        groupIndex == IF found = {} THEN 0 ELSE MinOf(found) - 1
        positionInGroup ==
            IF found = {} THEN 0
            ELSE findIndex(groups[groupIndex + 1], node.id) - 1
    IN  START_X + groupIndex * GROUP_SPACING
            + (positionInGroup * HORIZONTAL_SPACING)

calculateXPosition(node, allNodes) ==
    LET sameLevelNodes == SelectSeq(allNodes, LAMBDA n : n.y = node.y)
        groups == groupByType(sameLevelNodes)
        found == {i \in 1..Len(groups) : findIndex(groups[i], node.id) # 0}
        groupIndex == IF found = {} THEN 0 ELSE MinOf(found) - 1
        positionInGroup ==
            IF found = {} THEN 0
            ELSE findIndex(groups[groupIndex + 1], node.id) - 1
        groupOffset == groupIndex * GROUP_SPACING
        nodesBeforeGroup == SumLen(groups, groupIndex)
    IN  START_X + groupOffset
            + ((nodesBeforeGroup + positionInGroup) * HORIZONTAL_SPACING)

\* mutant: the depth offset is added to the y the node has
Mut_PassY_Accumulate(ns, es) ==
    [i \in 1..Len(ns) |->
        [ns[i] EXCEPT !.y = ns[i].y + calculateYPosition(ns[i], es)]]

\* Pass 1: nodes.forEach(node => node.y = calculateYPosition(node, edges))
PassY(ns, es) ==
    [i \in 1..Len(ns) |-> [ns[i] EXCEPT !.y = calculateYPosition(ns[i], es)]]

\* Pass 2: nodes.forEach(node => node.x = calculateXPosition(node, nodes));
\* calculateXPosition reads only id, type and y, which pass 2 does not write.
PassX(ns) ==
    [i \in 1..Len(ns) |-> [ns[i] EXCEPT !.x = calculateXPosition(ns[i], ns)]]

\* ------------------------------------------------------------------------
\* Spec: placeNodes on a bounded family of inputs
\* ------------------------------------------------------------------------
NodeIds(n) == {IdSeq[i] : i \in 1..n}

\* dependency edges between listed nodes
PlainEdges(n) ==
    [source : NodeIds(n), target : NodeIds(n), type : {"dependency"}]

\* every other edge: another type, or an endpoint that is no listed node
OtherEdges(n) ==
    [source : NodeIds(n) \cup {DanglingId},
     target : NodeIds(n) \cup {DanglingId},
     type : EdgeTypes] \ PlainEdges(n)

UntypedNodes(n) ==
    [i \in 1..n |-> [id |-> IdSeq[i], type |-> "", x |-> 0, y |-> 0]]

\* test-positioning.js style input: nodes without a type
UntypedInput(maxNodes, maxEdges) ==
    \E n \in 1..maxNodes :
        \E D \in SubsetsUpTo(PlainEdges(n), maxEdges) :
            \E O \in SubsetsUpTo(OtherEdges(n), MaxOther) :
                /\ Cardinality(D) + Cardinality(O) <= maxEdges
                /\ nodes = UntypedNodes(n)
                /\ edges = D \cup O

InitUntyped == UntypedInput(MaxNodes, MaxEdges)

\* typed nodes, few edges: what the X pass depends on
InitTyped ==
    \E n \in 1..MaxNodes :
        \E ts \in [1..n -> NodeTypes] :
            \E D \in SubsetsUpTo(PlainEdges(n), MaxTypedEdges) :
                /\ \E i \in 1..n : ts[i] # ""
                /\ nodes = [i \in 1..n |->
                              [id |-> IdSeq[i], type |-> ts[i], x |-> 0, y |-> 0]]
                /\ edges = D

\* node lists in which ids may repeat (ids come from the generation
\* response and are not checked for uniqueness), all in one tier
InitRepeatedIds ==
    \E n \in 2..MaxNodes :
        \E ids \in [1..n -> NodeIds(n - 1)] :
            \E ts \in [1..n -> NodeTypes] :
                /\ nodes = [i \in 1..n |->
                              [id |-> ids[i], type |-> ts[i], x |-> 0, y |-> 0]]
                /\ edges = {}

DfsIdle ==
    /\ cursor = 0
    /\ stack = <<>>
    /\ visited = {}

NoMap ==
    /\ territories = <<>>
    /\ isGenerating = FALSE

\* no drag in progress, nothing deleted
NoDrag ==
    /\ dragging = [active |-> FALSE, id |-> "", ox |-> 0, oy |-> 0]
    /\ pointer = [x |-> 0, y |-> 0]
    /\ lastCall = ""
    /\ logged = FALSE
    /\ detached = {}

\* no generation request made
NoRequest ==
    /\ inFlight = 0
    /\ response = [outcome |-> "none"]

\* nothing saved, no save requested
NoSave ==
    /\ saveTimeout = 0
    /\ timers = {}
    /\ storage = [primary |-> 0, backup |-> 0]
    /\ now = 0
    /\ requests = << >>

\* callWithRetry not called
NoRetry ==
    /\ retries = 3
    /\ attemptIndex = 0
    /\ retryPc = "idle"
    /\ calls = << >>

NoIo ==
    /\ NoRequest
    /\ NoSave
    /\ NoRetry

Init ==
    /\ phase = "input"
    /\ (InitTyped \/ InitRepeatedIds \/ InitUntyped)
    /\ DfsIdle
    /\ NoMap
    /\ NoDrag
    /\ NoIo

placeNodes ==
    /\ nodes' = PassX(PassY(nodes, edges))
    /\ phase' = "placed"
    /\ UNCHANGED edges
    /\ UNCHANGED <<dfsVars, ioVars>>
    /\ UNCHANGED packVars
    /\ UNCHANGED dragVars

Next == placeNodes

Spec == Init /\ [][Next]_vars

\* ------------------------------------------------------------------------
\* SpecTwice: placeNodes called a second time on the array it has placed
\* ------------------------------------------------------------------------
InitTwice ==
    /\ phase = "input"
    /\ (InitTyped \/ InitRepeatedIds \/ UntypedInput(MaxNodes, TwiceMaxEdges))
    /\ DfsIdle
    /\ NoMap
    /\ NoDrag
    /\ NoIo

\* phase "again": placeNodes has run on its own output
placeNodesAgain ==
    /\ phase = "placed"
    /\ nodes' = PassX(PassY(nodes, edges))
    /\ phase' = "again"
    /\ UNCHANGED edges
    /\ UNCHANGED <<dfsVars, ioVars>>
    /\ UNCHANGED packVars
    /\ UNCHANGED dragVars

NextTwice ==
    \/ placeNodes
    \/ placeNodesAgain

SpecTwice == InitTwice /\ [][NextTwice]_vars

\* ------------------------------------------------------------------------
\* SpecGroup: the two placeNodes of the repository on nodes that carry
\* territory membership. Here a node is [id, type, territories, x, y], where
\* territories is node.metadata.territories (<<>> when there is none).
\* src/services/nodePositioning.js is the action placeNodes above. The module
\* in part_002 (placeNodes(nodes, edges, options = {})) computes y the same
\* way, with the same default spacings, and groups by territory membership.
\* ------------------------------------------------------------------------
\* territories[0] || 'no-territory'
TerritoryKey(n) ==
    IF n.territories = <<>> THEN "no-territory" ELSE n.territories[1]

RECURSIVE TerritoryKeyOrder(_, _)
TerritoryKeyOrder(ns, acc) ==
    IF ns = <<>> THEN acc
    ELSE LET k == TerritoryKey(Head(ns))
         IN  TerritoryKeyOrder(Tail(ns),
                               IF \E i \in 1..Len(acc) : acc[i] = k THEN acc
                               ELSE Append(acc, k))

groupByTerritoryMembership(ns) ==
    LET keys == TerritoryKeyOrder(ns, <<>>)
    IN  [g \in 1..Len(keys) |->
            SelectSeq(ns, LAMBDA n : TerritoryKey(n) = keys[g])]

\* groupByNodeType of part_002 is groupByType of nodePositioning.js
groupNodesByTerritory(ns, allNodes) ==
    LET territoriesExist ==
            \E i \in 1..Len(allNodes) : Len(allNodes[i].territories) > 0
    IN  IF territoriesExist THEN groupByTerritoryMembership(ns)
        ELSE groupByType(ns)

\* calculateXPosition of part_002
calculateXPositionByTerritory(node, allNodes) ==
    LET sameLevelNodes == SelectSeq(allNodes, LAMBDA n : n.y = node.y)
        groups == groupNodesByTerritory(sameLevelNodes, allNodes)
        found == {i \in 1..Len(groups) : findIndex(groups[i], node.id) # 0}
        groupIndex == IF found = {} THEN 0 ELSE MinOf(found) - 1
        positionInGroup ==
            IF found = {} THEN 0
            ELSE findIndex(groups[groupIndex + 1], node.id) - 1
        groupOffset == groupIndex * GROUP_SPACING
        nodesBeforeThisGroup == SumLen(groups, groupIndex)
    IN  START_X + groupOffset
            + ((nodesBeforeThisGroup + positionInGroup) * HORIZONTAL_SPACING)

\* placeNodes of part_002 with the default options
placeNodesWithOptions ==
    /\ phase = "input"
    /\ LET ys == PassY(nodes, edges)
       IN  nodes' = [i \in 1..Len(ys) |->
                        [ys[i] EXCEPT !.x = calculateXPositionByTerritory(ys[i], ys)]]
    /\ phase' = "placedWithOptions"
    /\ UNCHANGED edges
    /\ UNCHANGED <<dfsVars, ioVars>>
    /\ UNCHANGED packVars
    /\ UNCHANGED dragVars

Memberships == {<< >>, <<"T1">>, <<"T2">>, <<"T2", "T1">>}

InitGroup ==
    /\ phase = "input"
    /\ \E n \in 1..GroupMaxNodes :
        \E ts \in [1..n -> NodeTypes] : \E ms \in [1..n -> Memberships] :
            \E D \in SubsetsUpTo(PlainEdges(n), GroupMaxEdges) :
                /\ nodes = [i \in 1..n |->
                              [id |-> IdSeq[i], type |-> ts[i],
                               territories |-> ms[i], x |-> 0, y |-> 0]]
                /\ edges = D
    /\ DfsIdle
    /\ NoMap
    /\ NoDrag
    /\ NoIo

NextGroup ==
    \/ placeNodes
    \/ placeNodesWithOptions

SpecGroup == InitGroup /\ [][NextGroup]_vars

\* ------------------------------------------------------------------------
\* SpecDfs: placeNodes with findLongestPathToNode run one activation step
\* at a time. The for-of at line 71 visits incomingEdges in array order;
\* the array order is left open, so DfsRecurse may take any remaining edge.
\* ------------------------------------------------------------------------
Top == stack[Len(stack)]

Frame(nodeId) == [nodeId |-> nodeId, pc |-> "enter", todo |-> {}, maxDepth |-> 0]

\* mutant: the cycle test never fires
Mut_VisitedHas_Never(vis, nodeId) == FALSE

\* visited.has(nodeId)
VisitedHas(vis, nodeId) == nodeId \in vis

\* `return v` of the innermost activation: the caller folds v into maxDepth
\* (line 73); the top-level caller, calculateYPosition, stores the y (line 50)
\* and pass 1 moves on to the next node.
Return(v) ==
    IF Len(stack) = 1
    THEN /\ nodes' = [nodes EXCEPT ![cursor].y = START_Y + (v * VERTICAL_SPACING)]
         /\ cursor' = cursor + 1
         /\ stack' = <<>>
    ELSE LET caller == stack[Len(stack) - 1]
         IN  /\ stack' = [SubSeq(stack, 1, Len(stack) - 1)
                            EXCEPT ![Len(stack) - 1].maxDepth =
                                        Max2(caller.maxDepth, v)]
             /\ UNCHANGED <<nodes, cursor>>

\* calculateYPosition, no incoming hierarchical edge: return START_Y
CalcYRoot ==
    /\ phase = "input" /\ cursor \in 1..Len(nodes) /\ stack = <<>>
    /\ IncomingEdges(nodes[cursor].id, edges) = {}
    /\ nodes' = [nodes EXCEPT ![cursor].y = START_Y]
    /\ cursor' = cursor + 1
    /\ UNCHANGED <<edges, phase, stack, visited, territories, isGenerating, dragVars, ioVars>>

\* calculateYPosition: findLongestPathToNode(node.id, edges, new Set())
CalcYSearch ==
    /\ phase = "input" /\ cursor \in 1..Len(nodes) /\ stack = <<>>
    /\ IncomingEdges(nodes[cursor].id, edges) # {}
    /\ stack' = <<Frame(nodes[cursor].id)>>
    /\ visited' = {}
    /\ UNCHANGED <<nodes, edges, phase, cursor, territories, isGenerating, dragVars, ioVars>>

\* if (visited.has(nodeId)) return 0
DfsCycleDetected ==
    /\ stack # <<>> /\ Top.pc = "enter"
    /\ VisitedHas(visited, Top.nodeId)
    /\ Return(0)
    /\ UNCHANGED <<edges, phase, visited, territories, isGenerating, dragVars, ioVars>>

\* visited.add; no incoming edge: visited.delete; return 0
DfsRootReached ==
    /\ stack # <<>> /\ Top.pc = "enter"
    /\ ~VisitedHas(visited, Top.nodeId)
    /\ IncomingEdges(Top.nodeId, edges) = {}
    /\ Return(0)
    /\ UNCHANGED <<edges, phase, visited, territories, isGenerating, dragVars, ioVars>>

\* visited.add; incoming edges found: let maxDepth = 0 and start the loop
DfsEnter ==
    /\ stack # <<>> /\ Top.pc = "enter"
    /\ ~VisitedHas(visited, Top.nodeId)
    /\ IncomingEdges(Top.nodeId, edges) # {}
    /\ visited' = visited \cup {Top.nodeId}
    /\ stack' = [stack EXCEPT ![Len(stack)] =
                    [nodeId |-> Top.nodeId, pc |-> "loop",
                     todo |-> IncomingEdges(Top.nodeId, edges), maxDepth |-> 0]]
    /\ UNCHANGED <<nodes, edges, phase, cursor, territories, isGenerating, dragVars, ioVars>>

\* next iteration of the loop: findLongestPathToNode(edge.source, ...)
DfsRecurse ==
    /\ stack # <<>> /\ Top.pc = "loop"
    /\ Len(stack) < CallStackLimit
    /\ \E e \in Top.todo :
          stack' = Append([stack EXCEPT ![Len(stack)].todo = Top.todo \ {e}],
                          Frame(e.source))
    /\ UNCHANGED <<nodes, edges, phase, cursor, visited, territories, isGenerating, dragVars, ioVars>>

\* loop over: visited.delete(nodeId); return maxDepth + 1
DfsExit ==
    /\ stack # <<>> /\ Top.pc = "loop" /\ Top.todo = {}
    /\ visited' = visited \ {Top.nodeId}
    /\ Return(Top.maxDepth + 1)
    /\ UNCHANGED <<edges, phase, territories, isGenerating, dragVars, ioVars>>

\* pass 2, once pass 1 has gone through the array
PassXStep ==
    /\ phase = "input" /\ cursor = Len(nodes) + 1
    /\ nodes' = PassX(nodes)
    /\ phase' = "placed"
    /\ UNCHANGED <<edges, cursor, stack, visited, territories, isGenerating, dragVars, ioVars>>

DfsEdges(n, types) ==
    [source : NodeIds(n) \cup {DanglingId},
     target : NodeIds(n) \cup {DanglingId},
     type : types]

InitDfs ==
    /\ phase = "input"
    /\ \E n \in 1..DfsMaxNodes :
          \E D \in SubsetsUpTo(DfsEdges(n, {"dependency"}), DfsMaxEdges) :
              \E O \in SubsetsUpTo(DfsEdges(n, EdgeTypes \ {"dependency"}),
                                    DfsMaxOther) :
                  /\ Cardinality(D) + Cardinality(O) <= DfsMaxEdges
                  /\ nodes = UntypedNodes(n)
                  /\ edges = D \cup O
    /\ NoMap
    /\ NoDrag
    /\ NoIo
    /\ cursor = 1
    /\ stack = <<>>
    /\ visited = {}

NextDfs ==
    \/ CalcYRoot
    \/ CalcYSearch
    \/ DfsCycleDetected
    \/ DfsRootReached
    \/ DfsEnter
    \/ DfsRecurse
    \/ DfsExit
    \/ PassXStep

\* The steps are the statements of one synchronous call: the engine runs
\* them to the end, so a step that can be taken is taken.
SpecDfs == InitDfs /\ [][NextDfs]_vars /\ WF_vars(NextDfs)

\* ------------------------------------------------------------------------
\* SpecPack: generateMap (part_000). The handler runs to its await of the
\* fetch, and from the response to its end, without interruption.
\* ------------------------------------------------------------------------
\* Math.ceil(nodeCount / COLS_PER_TERRITORY)
CeilDiv(a, b) == (a + b - 1) \div b

calculateTerritoryDimensions(nodeCount) ==
    LET rows == CeilDiv(nodeCount, COLS_PER_TERRITORY)
        width == TERRITORY_PADDING * 2
                    + (COLS_PER_TERRITORY * NODE_WIDTH)
                    + ((COLS_PER_TERRITORY - 1) * NODE_SPACING_X)
        height == TERRITORY_HEADER
                    + TERRITORY_PADDING * 2
                    + (rows * NODE_HEIGHT)
                    + ((rows - 1) * NODE_SPACING_Y)
    IN  [width |-> Max2(width, 400), height |-> Max2(height, 350)]

Min2(a, b) == IF a <= b THEN a ELSE b

\* mutant: the header height left out of the first row's offset
Mut_positionNodeInTerritory_NoHeader(territory, indexInTerritory) ==
    LET col == indexInTerritory % COLS_PER_TERRITORY
        row == indexInTerritory \div COLS_PER_TERRITORY
        x == territory.x + TERRITORY_PADDING + (col * (NODE_WIDTH + NODE_SPACING_X))
        y == territory.y + TERRITORY_PADDING + (row * (NODE_HEIGHT + NODE_SPACING_Y))
        maxX == territory.x + territory.w - NODE_WIDTH - TERRITORY_PADDING
        maxY == territory.y + territory.h - NODE_HEIGHT - TERRITORY_PADDING
    IN  [x |-> Min2(x, maxX), y |-> Min2(y, maxY)]

\* indexInTerritory counts from 0; the node argument is only logged
positionNodeInTerritory(territory, indexInTerritory) ==
    LET col == indexInTerritory % COLS_PER_TERRITORY
        row == indexInTerritory \div COLS_PER_TERRITORY
        x == territory.x + TERRITORY_PADDING + (col * (NODE_WIDTH + NODE_SPACING_X))
        y == territory.y + TERRITORY_HEADER + TERRITORY_PADDING
                + (row * (NODE_HEIGHT + NODE_SPACING_Y))
        maxX == territory.x + territory.w - NODE_WIDTH - TERRITORY_PADDING
        maxY == territory.y + territory.h - NODE_HEIGHT - TERRITORY_PADDING
    IN  [x |-> Min2(x, maxX), y |-> Min2(y, maxY)]

\* Array.prototype.indexOf, counting from 0; -1 when absent
indexOf(seq, v) ==
    LET hits == {i \in 1..Len(seq) : seq[i] = v}
    IN  IF hits = {} THEN -1 ELSE MinOf(hits) - 1

\* territories.find(t => t.nodeIds && t.nodeIds.includes(id)): its index in
\* the territory array, 0 when there is none
FindTerritory(ts, id) ==
    LET hits == {k \in 1..Len(ts) : indexOf(ts[k].nodeIds, id) # -1}
    IN  IF hits = {} THEN 0 ELSE MinOf(hits)

\* mapData.territories.forEach((t, index) => territories.push({...}))
MakeTerritory(t, index) ==
    LET dimensions == calculateTerritoryDimensions(Len(t.nodeIds))
        col == index % TERRITORY_COLS
        row == index \div TERRITORY_COLS
    IN  [id |-> t.id,
         x |-> 100 + col * (dimensions.width + TERRITORY_SPACING),
         y |-> 100 + row * (dimensions.height + TERRITORY_SPACING),
         w |-> dimensions.width,
         h |-> dimensions.height,
         nodeIds |-> t.nodeIds]

\* nodes.forEach(node => ...): a node of a territory goes to its grid cell,
\* any other node to (Math.random()*800+100, Math.random()*600+100), given
\* here by rnd
PositionNodes(ns, ts, rnd) ==
    [i \in 1..Len(ns) |->
        LET k == FindTerritory(ts, ns[i].id)
        IN  IF k # 0
            THEN LET position ==
                        positionNodeInTerritory(ts[k], indexOf(ts[k].nodeIds, ns[i].id))
                 IN  [ns[i] EXCEPT !.x = position.x, !.y = position.y]
            ELSE [ns[i] EXCEPT !.x = rnd[i].x, !.y = rnd[i].y]]

\* outcomes of Math.random()*800+100 and Math.random()*600+100: the ends of
\* the ranges [100, 900) and [100, 700)
RandomPoints == [x : {100, 899}, y : {100, 699}]

\* Generation responses (mapData). Node ids are 1, 2, ...; territory k lists
\* the next counts[k] ids; with `shared` the last territory lists the first
\* node a second time; `orphans` further nodes are in no territory.
RECURSIVE SumTo(_, _)
SumTo(counts, k) == IF k = 0 THEN 0 ELSE counts[k] + SumTo(counts, k - 1)

MapData(counts, shared, orphans) ==
    LET nT == Len(counts)
        nN == SumTo(counts, nT) + orphans
        block(k) == [j \in 1..counts[k] |-> SumTo(counts, k - 1) + j]
    IN  [nodes |-> [i \in 1..nN |-> [id |-> i, type |-> ""]],
         edges |-> IF nN >= 2
                   THEN << [id |-> "", source |-> 1, target |-> 2, type |-> ""] >>
                   ELSE << >>,
         territories |->
            [k \in 1..nT |->
                [id |-> k,
                 nodeIds |-> IF shared /\ k = nT THEN Append(block(k), 1)
                             ELSE block(k)]]]

MemberCounts ==
    UNION {[1..k -> 0..MaxMembers] : k \in 0..FullTerritories}
        \cup UNION {[1..k -> {0, 1, MaxMembers}] : k \in 0..MaxTerritories}

Responses ==
    {MapData(counts, shared, orphans) :
        counts \in MemberCounts, shared \in BOOLEAN, orphans \in 0..MaxOrphans}

\* mutant: no in-flight guard
Mut_GenerateMapStart_NoGuard ==
    /\ isGenerating' = TRUE
    /\ territories' = <<>>
    /\ nodes' = <<>>
    /\ edges' = <<>>
    /\ inFlight' = inFlight + 1
    /\ response' = [outcome |-> "pending"]
    /\ lastCall' = "generateMap"
    /\ logged' = FALSE
    /\ UNCHANGED <<phase, dragging, pointer, detached>>
    /\ UNCHANGED <<dfsVars, saveVars, retryVars>>

\* generateMap up to `await fetch`: the guard, then the collections cleared
\* and the request sent
GenerateMapStart ==
    /\ ~isGenerating
    /\ isGenerating' = TRUE
    /\ territories' = <<>>
    /\ nodes' = <<>>
    /\ edges' = <<>>
    /\ inFlight' = inFlight + 1
    /\ response' = [outcome |-> "pending"]
    /\ lastCall' = "generateMap"
    /\ logged' = FALSE
    /\ UNCHANGED <<phase, dragging, pointer, detached>>
    /\ UNCHANGED <<dfsVars, saveVars, retryVars>>

\* generateMap called while a generation is in flight: warn and return
GenerateMapBusy ==
    /\ isGenerating
    /\ lastCall' = "generateMap"
    /\ logged' = FALSE
    /\ UNCHANGED <<nodes, edges, territories, phase, isGenerating>>
    /\ UNCHANGED <<dragging, pointer, detached>>
    /\ UNCHANGED <<dfsVars, ioVars>>

\* mutant: no finally, isGenerating stays set
Mut_GenerateMapFailure_NoFinally ==
    /\ isGenerating
    /\ inFlight > 0
    /\ isGenerating' = TRUE
    /\ inFlight' = inFlight - 1
    /\ response' = [outcome |-> "error"]
    /\ lastCall' = "generateMap"
    /\ logged' = FALSE
    /\ UNCHANGED <<nodes, edges, territories, phase>>
    /\ UNCHANGED <<dragging, pointer, detached>>
    /\ UNCHANGED <<dfsVars, saveVars, retryVars>>

\* the fetch rejects, the answer is an error (!response.ok, !data.success)
\* or is malformed: catch, alert, rethrow; finally
GenerateMapFailure ==
    /\ isGenerating
    /\ inFlight > 0
    /\ isGenerating' = FALSE
    /\ inFlight' = inFlight - 1
    /\ response' = [outcome |-> "error"]
    /\ lastCall' = "generateMap"
    /\ logged' = FALSE
    /\ UNCHANGED <<nodes, edges, territories, phase>>
    /\ UNCHANGED <<dragging, pointer, detached>>
    /\ UNCHANGED <<dfsVars, saveVars, retryVars>>

\* the response is a map: nodes and edges pushed, territories created,
\* every node of the collection positioned. An edge without an id gets
\* crypto.randomUUID(), here Uuid(its index).
UuidSeq == <<"u1", "u2", "u3">>

Uuid(k) == UuidSeq[k]

PushMap(mapData) ==
    LET llmNodes ==
            [i \in 1..Len(mapData.nodes) |->
                [id |-> mapData.nodes[i].id,
                 type |-> IF mapData.nodes[i].type = "" THEN "concept"
                          ELSE mapData.nodes[i].type,
                 x |-> 0, y |-> 0]]
        llmEdges ==
            [k \in 1..Len(mapData.edges) |->
                LET e == mapData.edges[k]
                IN  [id |-> IF e.id = "" THEN Uuid(k) ELSE e.id,
                     source |-> e.source, target |-> e.target,
                     type |-> IF e.type = "" THEN "relationship" ELSE e.type]]
        pushed == nodes \o llmNodes
        created ==
            territories \o
                [k \in 1..Len(mapData.territories) |->
                    MakeTerritory(mapData.territories[k], k - 1)]
        outside == {i \in 1..Len(pushed) : FindTerritory(created, pushed[i].id) = 0}
    IN  /\ \E rnd \in [outside -> RandomPoints] :
              nodes' = PositionNodes(pushed, created, rnd)
        /\ edges' = edges \o llmEdges
        /\ territories' = created

\* the continuation of generateMap after a map has arrived; `saved` tells
\* whether saveSnapshot went through (then autoSave, which catches its
\* own errors) or threw (localStorage.setItem fails: catch, alert, rethrow,
\* the collections keep what was pushed); finally
Answered(mapData, saved) ==
    /\ PushMap(mapData)
    /\ response' = [outcome |-> "map", mapData |-> mapData, saved |-> saved]
    /\ isGenerating' = FALSE
    /\ inFlight' = inFlight - 1
    /\ lastCall' = "generateMap"
    /\ logged' = FALSE
    /\ UNCHANGED <<phase, dragging, pointer, detached>>
    /\ UNCHANGED <<dfsVars, saveVars, retryVars>>

GenerateMapSuccess ==
    /\ isGenerating
    /\ inFlight > 0
    /\ \E mapData \in Responses : Answered(mapData, TRUE)

GenerateMapSaveThrows ==
    /\ isGenerating
    /\ inFlight > 0
    /\ \E mapData \in Responses : Answered(mapData, FALSE)

InitPack ==
    /\ nodes = <<>>
    /\ edges = <<>>
    /\ phase = "input"
    /\ DfsIdle
    /\ NoMap
    /\ NoDrag
    /\ NoIo

NextPack ==
    \/ GenerateMapStart
    \/ GenerateMapBusy
    \/ GenerateMapFailure
    \/ GenerateMapSuccess
    \/ GenerateMapSaveThrows

SpecPack == InitPack /\ [][NextPack]_vars

\* ------------------------------------------------------------------------
\* SpecDrag: the node drag handlers (useNodes.js) and deleteNode (part_000).
\* Each handler runs to completion. Here a node is [id, x, y,
\* boundaryWarned]; boundaryWarned = FALSE stands for an object without the
\* _boundaryWarned property. useNodes.js declares NODE_WIDTH, NODE_HEIGHT
\* and TERRITORY_PADDING again, with the values of part_000.
\* ------------------------------------------------------------------------
\* svgToWorld(e) of the mouse events
Pointers == [x : {0, 300, 900}, y : {0, 300, 900}]

\* mutant: the lower bound is not applied
Mut_Clamp_UpperOnly(v, lo, hi) == Min2(v, hi)

\* mutant: the upper bound is not applied
Mut_Clamp_LowerOnly(v, lo, hi) == Max2(lo, v)

\* Math.max(lo, Math.min(v, hi))
Clamp(v, lo, hi) == Max2(lo, Min2(v, hi))

\* mutant: the grab offset is not subtracted
Mut_DragTarget_NoOffset(p) == [x |-> p.x, y |-> p.y]

\* newX = p.x - dragging.ox, newY = p.y - dragging.oy
DragTarget(p) == [x |-> p.x - dragging.ox, y |-> p.y - dragging.oy]

\* the clamped position of a node of `territory` whose target is `target`
ClampToTerritory(territory, target) ==
    LET minX == territory.x + TERRITORY_PADDING
        minY == territory.y + 60 + TERRITORY_PADDING
        maxX == territory.x + territory.w - (NODE_WIDTH \div 2) - TERRITORY_PADDING
        maxY == territory.y + territory.h - (NODE_HEIGHT \div 2) - TERRITORY_PADDING
    IN  [x |-> Clamp(target.x, minX + (NODE_WIDTH \div 2), maxX),
         y |-> Clamp(target.y, minY + (NODE_HEIGHT \div 2), maxY)]

\* n._boundaryWarned after a move of a node that has a territory
WarnedAfterMove(warned, isAtBoundary) == warned \/ isAtBoundary

\* the pointer minus the node position at mousedown; the mousedown listener
\* is on the element of the node
GrabOffsets == {[x |-> 0, y |-> 0], [x |-> 50, y |-> -20]}

\* onNodeDragStart(e, node) for the node at index i, the pointer at the
\* offset g from the node position
DragStart(i, g) ==
    LET p == [x |-> nodes[i].x + g.x, y |-> nodes[i].y + g.y]
    IN  /\ dragging' = [active |-> TRUE, id |-> nodes[i].id,
                        ox |-> p.x - nodes[i].x, oy |-> p.y - nodes[i].y]
        /\ pointer' = p
        /\ lastCall' = "onNodeDragStart"
        /\ logged' = FALSE
        /\ UNCHANGED <<nodes, edges, phase, territories, isGenerating, detached>>
        /\ UNCHANGED <<dfsVars, ioVars>>

\* a mousedown follows the mouseup of the drag before it
onNodeDragStart ==
    /\ ~dragging.active
    /\ \E i \in 1..Len(nodes) : \E g \in GrabOffsets : DragStart(i, g)

\* a mousedown on a node while a drag is active (a second mouse button, or
\* the mouseup of the drag was not delivered to the window): the handler
\* has no guard
onNodeDragStartWhileActive ==
    /\ dragging.active
    /\ \E i \in 1..Len(nodes) : \E g \in GrabOffsets : DragStart(i, g)

\* onNodeDragMove(e) with svgToWorld(e) = p, past its first return
DragMove(p) ==
    LET i == findIndex(nodes, dragging.id)
        n == nodes[i]
        target == DragTarget(p)
        k == FindTerritory(territories, n.id)
        new == IF k = 0 THEN target
               ELSE ClampToTerritory(territories[k], target)
        isAtBoundary == new.x # target.x \/ new.y # target.y
    IN  /\ pointer' = p
        /\ lastCall' = "onNodeDragMove"
        /\ IF i = 0
           THEN /\ logged' = FALSE
                /\ UNCHANGED nodes
           ELSE /\ logged' = (k # 0 /\ isAtBoundary /\ ~n.boundaryWarned)
                /\ nodes' = [nodes EXCEPT ![i] =
                        [@ EXCEPT !.x = new.x, !.y = new.y,
                                  !.boundaryWarned =
                                      IF k = 0 THEN @
                                      ELSE WarnedAfterMove(@, isAtBoundary)]]
        /\ UNCHANGED <<edges, phase, territories, isGenerating, dragging, detached>>
        /\ UNCHANGED <<dfsVars, ioVars>>

\* the mousemove listener is registered from drag start to drag end
onNodeDragMove ==
    /\ dragging.active /\ dragging.id # ""
    /\ \E p \in Pointers : DragMove(p)

\* a mousemove event at the pointer position of the event before it
onNodeDragMoveInPlace ==
    /\ dragging.active /\ dragging.id # ""
    /\ DragMove(pointer)

\* the mouseup listener is registered from drag start to drag end;
\* immediateSave writes to localStorage, which is not among the variables
onNodeDragEnd ==
    /\ dragging.active
    /\ LET i == findIndex(nodes, dragging.id)
       IN  nodes' = IF dragging.id # "" /\ i # 0
                    THEN [nodes EXCEPT ![i].boundaryWarned = FALSE]
                    ELSE nodes
    /\ dragging' = [dragging EXCEPT !.active = FALSE, !.id = ""]
    /\ lastCall' = "onNodeDragEnd"
    /\ logged' = FALSE
    /\ UNCHANGED <<edges, phase, territories, isGenerating, pointer, detached>>
    /\ UNCHANGED <<dfsVars, ioVars>>

\* nodeIds.splice(nodeIds.indexOf(nodeId), 1) where nodeIds includes nodeId
RemoveFirst(seq, v) ==
    LET j == indexOf(seq, v) + 1
    IN  IF j = 0 THEN seq
        ELSE [m \in 1..(Len(seq) - 1) |-> IF m < j THEN seq[m] ELSE seq[m + 1]]

\* arr.splice(j, 1), j counting from 1
RemoveAt(seq, j) ==
    [m \in 1..(Len(seq) - 1) |-> IF m < j THEN seq[m] ELSE seq[m + 1]]

\* edgesToRemove.forEach(edge => { edgeIndex = edges.findIndex(e => e.id
\* === edge.id); if (edgeIndex !== -1) edges.splice(edgeIndex, 1) })
RECURSIVE RemoveEdgesById(_, _)
RemoveEdgesById(es, edgesToRemove) ==
    IF edgesToRemove = << >> THEN es
    ELSE LET edgeIndex == findIndex(es, Head(edgesToRemove).id)
         IN  RemoveEdgesById(IF edgeIndex # 0 THEN RemoveAt(es, edgeIndex) ELSE es,
                             Tail(edgesToRemove))

deleteNode ==
    \E nodeId \in {nodes[i].id : i \in 1..Len(nodes)} \cup {DanglingId} :
        LET nodeIndex == findIndex(nodes, nodeId)
            edgesToRemove ==
                SelectSeq(edges, LAMBDA e : e.source = nodeId \/ e.target = nodeId)
        IN  /\ lastCall' = "deleteNode"
            /\ logged' = FALSE
            /\ IF nodeIndex = 0
               THEN UNCHANGED <<nodes, edges, territories, detached>>
               ELSE /\ nodes' = RemoveAt(nodes, nodeIndex)
                    /\ edges' = RemoveEdgesById(edges, edgesToRemove)
                    /\ territories' = [t \in 1..Len(territories) |->
                            [territories[t] EXCEPT
                                !.nodeIds = RemoveFirst(@, nodeId)]]
                    /\ detached' = detached \cup {nodes[nodeIndex]}
            /\ UNCHANGED <<phase, isGenerating, dragging, pointer>>
            /\ UNCHANGED <<dfsVars, ioVars>>

\* Territories as they come from generateMap (420x350 and larger) or from
\* storage, whose geometry is loaded as it is: one of 220x180, whose clamp
\* intervals are single points, and one of 200x150, whose lower clamp bound
\* is above the upper one.
DragBoxes == {[w |-> 420, h |-> 350], [w |-> 220, h |-> 180], [w |-> 200, h |-> 150]}

\* One node, A. In the owned families the first territory lists A, and in
\* one of them a second territory further right lists A too; in the free
\* family the territory lists another id.
InitDrag ==
    \E box \in DragBoxes : \E family \in {"owned", "shared", "free"} :
        \E posA \in {[x |-> 120, y |-> 180], [x |-> 300, y |-> 300]} :
            /\ nodes = << [id |-> "A", x |-> posA.x, y |-> posA.y,
                           boundaryWarned |-> FALSE] >>
            /\ edges = << [id |-> "e1", source |-> "A", target |-> "B",
                            type |-> "relationship"] >>
            /\ territories =
                  << [id |-> "T1", x |-> 100, y |-> 100, w |-> box.w, h |-> box.h,
                      nodeIds |-> IF family = "free" THEN <<"B">> ELSE <<"A">>] >>
                  \o (IF family = "shared"
                      THEN << [id |-> "T2", x |-> 600, y |-> 100, w |-> 420,
                               h |-> 350, nodeIds |-> <<"A">>] >>
                      ELSE << >>)
            /\ isGenerating = FALSE
            /\ phase = "input"
            /\ DfsIdle
            /\ dragging = [active |-> FALSE, id |-> "", ox |-> 0, oy |-> 0]
            /\ pointer = [x |-> 0, y |-> 0]
            /\ lastCall = ""
            /\ logged = FALSE
            /\ detached = {}
            /\ NoIo

NextDrag ==
    \/ onNodeDragStart
    \/ onNodeDragMove
    \/ onNodeDragEnd
    \/ deleteNode

SpecDrag == InitDrag /\ [][NextDrag]_vars

\* ------------------------------------------------------------------------
\* SpecOpaque: placeNodes on inputs that mix dependency/hierarchy edges
\* with edges of the other types of the data model ("" stands for an edge
\* without a type field)
\* ------------------------------------------------------------------------
OpaqueTypes == {"relationship", "similarity", ""}

HierEdges(n) ==
    [source : NodeIds(n), target : NodeIds(n), type : {"dependency", "hierarchy"}]

OpaqueEdges(n) ==
    [source : NodeIds(n), target : NodeIds(n), type : OpaqueTypes]

InitOpaque ==
    /\ phase = "input"
    /\ \E n \in 1..OpaqueMaxNodes :
        \E ts \in [1..n -> {"", "concept"}] :
            \E D \in SubsetsUpTo(HierEdges(n), OpaqueMaxHier) :
                \E O \in SubsetsUpTo(OpaqueEdges(n), OpaqueMaxOther) :
                    /\ nodes = [i \in 1..n |->
                                  [id |-> IdSeq[i], type |-> ts[i], x |-> 0, y |-> 0]]
                    /\ edges = D \cup O
    /\ DfsIdle
    /\ NoMap
    /\ NoDrag
    /\ NoIo

NextOpaque == placeNodes

SpecOpaque == InitOpaque /\ [][NextOpaque]_vars

\* ------------------------------------------------------------------------
\* SpecDelete: deleteNode (part_000) on stored maps. Here a node is
\* [id, x, y, boundaryWarned] and edges is the edge array. Maps come from
\* generateMap or from storage (autoLoad, loadSnapshot), which push nodes,
\* edges and territories as they are given: an edge may name an id that no
\* node has, two edges may carry the same id, a membership list may name an
\* id twice.
\* ------------------------------------------------------------------------
RECURSIVE SeqsUpTo(_, _)
SeqsUpTo(S, k) ==
    IF k = 0 THEN {<< >>}
    ELSE LET prev == SeqsUpTo(S, k - 1)
         IN  prev \cup {Append(q, x) : q \in prev, x \in S}

EdgePool ==
    {[source |-> "A", target |-> "B"], [source |-> "B", target |-> "C"],
     [source |-> "C", target |-> "A"], [source |-> "B", target |-> "A"]}

StoredEdges ==
    {[id |-> i, source |-> e.source, target |-> e.target, type |-> "dependency"]
        : i \in {"e1", "e2"}, e \in EdgePool}

InitDelete ==
    /\ \E n \in 2..DeleteMaxNodes :
        /\ nodes = [i \in 1..n |->
                      [id |-> IdSeq[i], x |-> 100 * i, y |-> 100,
                       boundaryWarned |-> FALSE]]
        /\ \E m1 \in SeqsUpTo(NodeIds(n), DeleteMaxMembers) :
            \E m2 \in {<< >>, <<"A">>, <<"B", "A">>} : \E two \in BOOLEAN :
                territories =
                    << [id |-> "T1", x |-> 100, y |-> 100, w |-> 420, h |-> 350,
                        nodeIds |-> m1] >>
                    \o (IF two
                        THEN << [id |-> "T2", x |-> 600, y |-> 100, w |-> 420,
                                 h |-> 350, nodeIds |-> m2] >>
                        ELSE << >>)
    /\ edges \in SeqsUpTo(StoredEdges, DeleteMaxEdges)
    /\ isGenerating = FALSE
    /\ phase = "input"
    /\ DfsIdle
    /\ NoDrag
    /\ NoIo

NextDelete == deleteNode

SpecDelete == InitDelete /\ [][NextDelete]_vars

\* ------------------------------------------------------------------------
\* SpecDeep: placeNodes on dependency chains 1 -> 2 -> ... -> n, open or
\* closed to a ring by n -> 1, some of them deeper than the call stack
\* holds. Node ids are 1..n.
\* ------------------------------------------------------------------------
\* The call at line 72 needs an activation the stack has no room for: the
\* engine throws RangeError. Neither findLongestPathToNode nor
\* calculateYPosition nor placeNodes has a try: every activation is
\* unwound, pass 1 stops at the node it is at and pass 2 does not run.
DfsStackOverflow ==
    /\ phase = "input"
    /\ stack # <<>> /\ Top.pc = "loop" /\ Top.todo # {}
    /\ Len(stack) = CallStackLimit
    /\ stack' = <<>>
    /\ phase' = "RangeError"
    /\ UNCHANGED <<nodes, edges, cursor, visited, territories, isGenerating, dragVars, ioVars>>

InitDeep ==
    /\ phase = "input"
    /\ \E n \in 1..(CallStackLimit + 2) : \E deepestFirst, closed \in BOOLEAN :
          /\ nodes = [i \in 1..n |->
                        [id |-> IF deepestFirst THEN n + 1 - i ELSE i,
                         type |-> "", x |-> 0, y |-> 0]]
          /\ edges = {[source |-> i, target |-> i + 1, type |-> "dependency"]
                        : i \in 1..(n - 1)}
                     \cup (IF closed
                           THEN {[source |-> n, target |-> 1, type |-> "dependency"]}
                           ELSE {})
    /\ NoMap
    /\ NoDrag
    /\ NoIo
    /\ cursor = 1
    /\ stack = <<>>
    /\ visited = {}

NextDeep ==
    \/ CalcYRoot
    \/ CalcYSearch
    \/ DfsCycleDetected
    \/ DfsRootReached
    \/ DfsEnter
    \/ DfsRecurse
    \/ DfsExit
    \/ DfsStackOverflow
    \/ PassXStep

SpecDeep == InitDeep /\ [][NextDeep]_vars /\ WF_vars(NextDeep)

\* ------------------------------------------------------------------------
\* SpecFlight: generateMap (part_000) with the other handlers of the page
\* running between its start and its answer: quickAddNode (useNodes.js),
\* loadSnapshot and deleteNode (part_000). A handler runs to its end or to
\* its await; the Add Node button, the history list and the context menu
\* are not disabled while isGenerating is set (App.vue:97-101, 244, 350).
\* ------------------------------------------------------------------------
\* crypto.randomUUID(): an id no node has or had
FreshNodeId ==
    LET used == {nodes[i].id : i \in 1..Len(nodes)} \cup {n.id : n \in detached}
    IN  Uuid(MinOf({k \in 1..(MaxQuickAdds + 1) : Uuid(k) \notin used}))

Uuids == {Uuid(k) : k \in 1..Len(UuidSeq)}

\* the label typed is empty (warn and return) or not; the node goes to
\* the centre of the viewBox
quickAddNode ==
    /\ \E label \in {"", "idea"} :
          IF label = ""
          THEN UNCHANGED nodes
          ELSE /\ Cardinality(({nodes[i].id : i \in 1..Len(nodes)}
                                \cup {n.id : n \in detached}) \cap Uuids)
                     < MaxQuickAdds
               /\ nodes' = Append(nodes, [id |-> FreshNodeId, type |-> "",
                                          x |-> 500, y |-> 400])
    /\ lastCall' = "quickAddNode"
    /\ logged' = FALSE
    /\ UNCHANGED <<edges, phase, territories, isGenerating, dragging, pointer, detached>>
    /\ UNCHANGED <<dfsVars, ioVars>>

\* localStorage 'mvp-history': no history (throw, nothing changed), or one
\* snapshot of a node in its territory
Snapshots ==
    {[nodes |-> << [id |-> "S1", type |-> "concept", x |-> 120, y |-> 180] >>,
      edges |-> << >>,
      territories |-> << [id |-> "TS", x |-> 100, y |-> 100, w |-> 420, h |-> 350,
                          nodeIds |-> << "S1" >>] >>]}

loadSnapshot ==
    /\ \/ UNCHANGED <<nodes, edges, territories>>
       \/ \E snap \in Snapshots :
             /\ territories' = snap.territories
             /\ nodes' = snap.nodes
             /\ edges' = snap.edges
    /\ lastCall' = "loadSnapshot"
    /\ logged' = FALSE
    /\ UNCHANGED <<phase, isGenerating, dragging, pointer, detached>>
    /\ UNCHANGED <<dfsVars, ioVars>>

\* the answers of the generation service in this specification: one
\* territory of one node, or one territory of two nodes joined by an edge
FlightResponses ==
    {[nodes |-> << [id |-> "A", type |-> ""] >>,
      edges |-> << >>,
      territories |-> << [id |-> "T1", nodeIds |-> <<"A">>] >>],
     [nodes |-> << [id |-> "A", type |-> ""], [id |-> "B", type |-> "entity"] >>,
      edges |-> << [id |-> "", source |-> "A", target |-> "B", type |-> ""] >>,
      territories |-> << [id |-> "T1", nodeIds |-> <<"A", "B">>] >>]}

FlightSuccess ==
    /\ isGenerating
    /\ inFlight > 0
    /\ \E mapData \in FlightResponses : Answered(mapData, TRUE)

FlightSaveThrows ==
    /\ isGenerating
    /\ inFlight > 0
    /\ \E mapData \in FlightResponses : Answered(mapData, FALSE)

NextFlight ==
    \/ GenerateMapStart
    \/ GenerateMapBusy
    \/ GenerateMapFailure
    \/ FlightSuccess
    \/ FlightSaveThrows
    \/ quickAddNode
    \/ loadSnapshot
    \/ deleteNode

SpecFlight == InitPack /\ [][NextFlight]_vars

\* the fetch settles: the service answers, or the connection fails
FlightSettles == GenerateMapFailure \/ FlightSuccess \/ FlightSaveThrows

SpecFlightFair == SpecFlight /\ WF_vars(FlightSettles)

\* ------------------------------------------------------------------------
\* LLMService.callWithRetry (part_002:293-318), one await at a time.
\* An apiCall settles with the HTTP status it got: 200 when it resolves,
\* else the error.response.status of the rejection, 0 when the error has no
\* response (network error, timeout).
\* ------------------------------------------------------------------------
ErrorStatuses == {429, 500, 0}

\* the call: i = 0; the loop body runs when i < retries and awaits apiCall(),
\* else the function returns undefined without calling
callWithRetry ==
    /\ retryPc = "idle"
    /\ \E r \in 0..MaxRetries :
          /\ retries' = r
          /\ retryPc' = IF 0 < r THEN "calling" ELSE "returned"
    /\ attemptIndex' = 0
    /\ calls' = << >>
    /\ UNCHANGED <<layoutVars, dfsVars, packVars, dragVars, netVars, saveVars>>

\* return await apiCall()
ApiCallResolves ==
    /\ retryPc = "calling"
    /\ calls' = Append(calls, 200)
    /\ retryPc' = "returned"
    /\ UNCHANGED <<retries, attemptIndex>>
    /\ UNCHANGED <<layoutVars, dfsVars, packVars, dragVars, netVars, saveVars>>

\* the catch block
ApiCallRejects ==
    /\ retryPc = "calling"
    /\ \E status \in ErrorStatuses :
          LET isRateLimited == status = 429
              isLastAttempt == attemptIndex = retries - 1
          IN  /\ calls' = Append(calls, status)
              /\ IF isRateLimited /\ ~isLastAttempt
                 THEN \* await the delay, then continue
                      /\ retryPc' = "waiting"
                      /\ attemptIndex' = attemptIndex
                 ELSE IF isLastAttempt
                 THEN /\ retryPc' = IF isRateLimited THEN "thrownBusy"
                                                     ELSE "thrownError"
                      /\ attemptIndex' = attemptIndex
                 ELSE \* neither if is taken: the catch block ends, i++,
                      \* i < retries holds, apiCall() is awaited again
                      /\ retryPc' = "calling"
                      /\ attemptIndex' = attemptIndex + 1
    /\ UNCHANGED retries
    /\ UNCHANGED <<layoutVars, dfsVars, packVars, dragVars, netVars, saveVars>>

\* the delay of 2^i seconds is over: continue, i++, apiCall() again
DelayElapsed ==
    /\ retryPc = "waiting"
    /\ attemptIndex' = attemptIndex + 1
    /\ retryPc' = "calling"
    /\ UNCHANGED <<retries, calls>>
    /\ UNCHANGED <<layoutVars, dfsVars, packVars, dragVars, netVars, saveVars>>

NextRetry ==
    \/ callWithRetry
    \/ ApiCallResolves
    \/ ApiCallRejects
    \/ DelayElapsed

SpecRetry == InitPack /\ [][NextRetry]_vars

\* ------------------------------------------------------------------------
\* SpecPacked: the drag handlers on a map as generateMap leaves it: one
\* territory built from a response that lists n nodes, each node at the
\* position positionNodeInTerritory gives it (part_000:393-469).
\* ------------------------------------------------------------------------
PackedIds == <<"A", "B", "C", "D", "E", "F">>

\* index: the territory's place in mapData.territories (the territories
\* before it are left out: no node of the model is in them)
InitPacked ==
    \E n \in 1..PackedMaxMembers : \E index \in 0..(TERRITORY_COLS - 1) :
        LET t == MakeTerritory([id |-> "T1", nodeIds |-> SubSeq(PackedIds, 1, n)],
                               index)
            llmNodes == [i \in 1..n |->
                            [id |-> PackedIds[i], x |-> 0, y |-> 0,
                             boundaryWarned |-> FALSE]]
        IN  /\ territories = << t >>
            /\ nodes = PositionNodes(llmNodes, << t >>,
                                     [i \in 1..n |-> [x |-> 0, y |-> 0]])
            /\ edges = << >>
            /\ isGenerating = FALSE
            /\ phase = "input"
            /\ DfsIdle
            /\ NoDrag
            /\ NoIo

NextPacked ==
    \/ onNodeDragStart
    \/ onNodeDragMoveInPlace
    \/ onNodeDragMove
    \/ onNodeDragEnd

SpecPacked == InitPacked /\ [][NextPacked]_vars

\* ------------------------------------------------------------------------
\* SpecRegrab: the drag handlers and deleteNode on a generated territory,
\* with mousedown events on a node while a drag is active.
\* ------------------------------------------------------------------------
NextRegrab ==
    \/ onNodeDragStart
    \/ onNodeDragStartWhileActive
    \/ onNodeDragMove
    \/ onNodeDragEnd
    \/ deleteNode

\* two nodes, A and B, in the first generated territory
InitRegrab ==
    /\ InitPacked
    /\ Len(nodes) = 2
    /\ territories[1].x = 100

SpecRegrab == InitRegrab /\ [][NextRegrab]_vars

\* ------------------------------------------------------------------------
\* SpecSave: debouncedAutoSave and immediateAutoSave (useNodes.js:278-308)
\* with the timer they share. A timer set with setTimeout(f, 500) runs f at
\* some time not before 500 ms later, unless clearTimeout removed it.
\* ------------------------------------------------------------------------
DEBOUNCE_MS == 500

\* validateData(data): the structure and size tests, given by data.valid
validateData(data) == data.valid

\* saveToStorage(data): the storage after the call. With quotaExceeded the
\* setItem of the primary key throws, after the rotation; the catch block
\* returns false.
saveToStorage(data, quotaExceeded) ==
    IF ~validateData(data) THEN storage
    ELSE LET existingPrimary == storage.primary
             rotated == IF existingPrimary # 0
                        THEN [storage EXCEPT !.backup = existingPrimary]
                        ELSE storage
         IN  IF quotaExceeded THEN rotated
             ELSE [rotated EXCEPT !.primary = data.seq]

\* clearTimeout(id): no effect when the timer has fired or was cleared
clearTimeout(id) == {t \in timers : t.id # id}

\* mutant: the pending timer is not cleared
Mut_debouncedAutoSave_NoClear ==
    /\ Len(requests) < MaxRequests
    /\ \E valid \in BOOLEAN :
          LET data == [seq |-> Len(requests) + 1, valid |-> valid]
              id == Len(requests) + 1
          IN  /\ timers' = timers \cup
                                {[id |-> id, data |-> data, due |-> now + DEBOUNCE_MS]}
              /\ saveTimeout' = id
              /\ requests' = Append(requests, [kind |-> "debounced",
                                               valid |-> valid, at |-> now])
    /\ UNCHANGED <<storage, now>>
    /\ UNCHANGED <<layoutVars, dfsVars, packVars, dragVars, netVars, retryVars>>

\* setTimeout returns an id no timer had before
debouncedAutoSave ==
    /\ Len(requests) < MaxRequests
    /\ \E valid \in BOOLEAN :
          LET data == [seq |-> Len(requests) + 1, valid |-> valid]
              id == Len(requests) + 1
              pending == IF saveTimeout # 0 THEN clearTimeout(saveTimeout)
                         ELSE timers
          IN  /\ timers' = pending \cup
                                {[id |-> id, data |-> data, due |-> now + DEBOUNCE_MS]}
              /\ saveTimeout' = id
              /\ requests' = Append(requests, [kind |-> "debounced",
                                               valid |-> valid, at |-> now])
    /\ UNCHANGED <<storage, now>>
    /\ UNCHANGED <<layoutVars, dfsVars, packVars, dragVars, netVars, retryVars>>

immediateAutoSave ==
    /\ Len(requests) < MaxRequests
    /\ \E valid, quotaExceeded \in BOOLEAN :
          LET data == [seq |-> Len(requests) + 1, valid |-> valid]
          IN  /\ storage' = saveToStorage(data, quotaExceeded)
              /\ requests' = Append(requests, [kind |-> "immediate",
                                               valid |-> valid, at |-> now])
    /\ timers' = IF saveTimeout # 0 THEN clearTimeout(saveTimeout) ELSE timers
    /\ saveTimeout' = 0
    /\ UNCHANGED now
    /\ UNCHANGED <<layoutVars, dfsVars, packVars, dragVars, netVars, retryVars>>

\* the callback of a timer runs: saveToStorage(data); saveTimeout keeps the
\* id of the timer
DebouncedSaveFires ==
    /\ \E t \in timers : \E quotaExceeded \in BOOLEAN :
          /\ t.due <= now
          /\ storage' = saveToStorage(t.data, quotaExceeded)
          /\ timers' = timers \ {t}
    /\ UNCHANGED <<saveTimeout, now, requests>>
    /\ UNCHANGED <<layoutVars, dfsVars, packVars, dragVars, netVars, retryVars>>

\* time passes
ClockSteps == {250, 500}

ClockAdvances ==
    /\ \E d \in ClockSteps :
          /\ now + d <= MaxNow
          /\ now' = now + d
    /\ UNCHANGED <<saveTimeout, timers, storage, requests>>
    /\ UNCHANGED <<layoutVars, dfsVars, packVars, dragVars, netVars, retryVars>>

NextSave ==
    \/ debouncedAutoSave
    \/ immediateAutoSave
    \/ DebouncedSaveFires
    \/ ClockAdvances

SpecSave == InitPack /\ [][NextSave]_vars

\* ------------------------------------------------------------------------
\* Vocabulary of the properties (stated on the input, not through the
\* operators above)
\* ------------------------------------------------------------------------
Placed == phase = "placed"

ListedIds == {nodes[i].id : i \in 1..Len(nodes)}

\* the dependency/hierarchy edges of the input
DepOrHier == {e \in edges : e.type \in {"dependency", "hierarchy"}}

EdgeIds == {e.source : e \in DepOrHier} \cup {e.target : e \in DepOrHier}

Parents(id) == {e.source : e \in {d \in DepOrHier : d.target = id}}

\* y of the listed node(s) with this id (nodes that share an id share y)
YOf(id) == nodes[CHOOSE i \in 1..Len(nodes) : nodes[i].id = id].y

DepthOf(id) == (YOf(id) - 100) \div 150

\* ids reachable from id along one or more dependency/hierarchy edges
RECURSIVE Closure(_, _)
Closure(S, k) ==
    IF k = 0 THEN S
    ELSE Closure(S \cup {e.target : e \in {d \in DepOrHier : d.source \in S}},
                 k - 1)

Descendants(id) ==
    Closure({e.target : e \in {d \in DepOrHier : d.source = id}},
            Cardinality(EdgeIds))

Acyclic == \A id \in EdgeIds : id \notin Descendants(id)

AllJoinKnown == EdgeIds \subseteq ListedIds

\* length of the longest chain of dependency/hierarchy edges ending at id
\* (exact on an acyclic graph once fuel >= the number of ids)
RECURSIVE LongestChain(_, _)
LongestChain(id, fuel) ==
    IF fuel = 0 \/ Parents(id) = {} THEN 0
    ELSE 1 + MaxOf({LongestChain(p, fuel - 1) : p \in Parents(id)})

DepEdge(a, b) == [source |-> a, target |-> b, type |-> "dependency"]

\* ------------------------------------------------------------------------
\* C1  On an acyclic graph whose dependency/hierarchy edges all join listed
\*     nodes, every non-root node has depth 1 + the maximum depth of the
\*     sources of its incoming dependency/hierarchy edges, which is the
\*     length of the longest chain ending at it, and y = 100 + depth*150.
\* ------------------------------------------------------------------------
C1_LongestPathDepth ==
    (Placed /\ Acyclic /\ AllJoinKnown) =>
        \A i \in 1..Len(nodes) :
            LET id == nodes[i].id
            IN  Parents(id) # {} =>
                  /\ nodes[i].y =
                        100 + (1 + MaxOf({DepthOf(p) : p \in Parents(id)})) * 150
                  /\ nodes[i].y = 100 + LongestChain(id, Cardinality(EdgeIds)) * 150

\* the chain A->B->C placed at depths 0, 1, 2
C1_Witness ==
    /\ Placed
    /\ Len(nodes) = 3
    /\ edges = {DepEdge("A", "B"), DepEdge("B", "C")}
    /\ nodes[1].y = 100 /\ nodes[2].y = 250 /\ nodes[3].y = 400

\* a and b lie on a common simple cycle of dependency/hierarchy edges:
\* a simple closed walk from a back to a that passes through b
RECURSIVE CycleVia(_, _, _, _)
CycleVia(cur, start, seen, must) ==
    \E e \in {d \in DepOrHier : d.source = cur} :
        \/ e.target = start /\ must \subseteq seen
        \/ e.target \notin seen
              /\ CycleVia(e.target, start, seen \cup {e.target}, must)

OnCommonCycle(a, b) == CycleVia(a, a, {a}, {a, b})

\* ------------------------------------------------------------------------
\* C2  All nodes that lie on a common dependency/hierarchy cycle get the
\*     same y, whatever other edges enter the cycle.
\*     (Refuted: A<->B, B<->C gives A depth 3 and B depth 2.)
\* ------------------------------------------------------------------------
C2_CycleNodesSameDepth ==
    Placed =>
        \A i, j \in 1..Len(nodes) :
            OnCommonCycle(nodes[i].id, nodes[j].id) => nodes[i].y = nodes[j].y

\* The dependency/hierarchy edges are: one edge from a root r to entry, and
\* one simple cycle through entry that covers every other endpoint.
Pairs == {<<e.source, e.target>> : e \in DepOrHier}

RootedCycle(r, entry) ==
    /\ r # entry
    /\ <<r, entry>> \in Pairs
    /\ \A p \in Pairs : p[2] # r
    /\ \A p \in Pairs : p[1] = r => p[2] = entry
    /\ LET cyc == EdgeIds \ {r}
           inner == Pairs \ {<<r, entry>>}
       IN  /\ \A c \in cyc : Cardinality({p \in inner : p[1] = c}) = 1
           /\ \A c \in cyc : Cardinality({p \in inner : p[2] = c}) = 1
           /\ cyc \subseteq Descendants(entry)

\* ------------------------------------------------------------------------
\* C3  A root feeding one simple dependency cycle through a single entry
\*     node: every node of the cycle gets the same y.
\* ------------------------------------------------------------------------
C3_RootedCycleSameY ==
    Placed =>
        \A r, entry \in EdgeIds :
            RootedCycle(r, entry) =>
                \A i, j \in 1..Len(nodes) :
                    ({nodes[i].id, nodes[j].id} \subseteq EdgeIds \ {r})
                        => nodes[i].y = nodes[j].y

\* test-positioning.js: A->B->C->D->B
IsFixture ==
    /\ Len(nodes) = 4
    /\ DepOrHier = {DepEdge("A", "B"), DepEdge("B", "C"),
                    DepEdge("C", "D"), DepEdge("D", "B")}

\* the fixture placed: B, C and D share a tier below A
C3_Witness ==
    /\ Placed
    /\ IsFixture
    /\ RootedCycle("A", "B")
    /\ nodes[1].y = 100
    /\ nodes[2].y = nodes[3].y /\ nodes[3].y = nodes[4].y
    /\ nodes[2].y > nodes[1].y

\* ------------------------------------------------------------------------
\* C4  In the fixture the common depth of B, C and D is 1 + depth(A) = 1.
\*     (Refuted: the search walks the whole cycle, B, C and D get depth 3.)
\* ------------------------------------------------------------------------
C4_FixtureCycleDepthOne ==
    (Placed /\ IsFixture) =>
        /\ nodes[2].y = nodes[1].y + 150
        /\ nodes[3].y = nodes[1].y + 150
        /\ nodes[4].y = nodes[1].y + 150

\* ------------------------------------------------------------------------
\* C5  A node whose only incoming dependency/hierarchy edge is a self-loop
\*     gets depth 0.  (Refuted: it gets depth 1, y = 250.)
\* ------------------------------------------------------------------------
C5_SelfLoopDepthZero ==
    Placed =>
        \A i \in 1..Len(nodes) :
            Parents(nodes[i].id) = {nodes[i].id} => nodes[i].y = 100

\* ------------------------------------------------------------------------
\* C6  The depth search terminates on every input.
\* ------------------------------------------------------------------------
\* activations past the visited.has test, outermost first
Entered == SelectSeq(stack, LAMBDA f : f.pc = "loop")

NoIdTwiceOnStack ==
    /\ \A i, j \in 1..Len(Entered) :
          Entered[i].nodeId = Entered[j].nodeId => i = j
    /\ visited = {Entered[i].nodeId : i \in 1..Len(Entered)}

\* recursive calls nested inside the top-level call
RecursionDepth == IF stack = <<>> THEN 0 ELSE Len(stack) - 1

DfsAgreesWithPlaceNodes ==
    (Placed /\ cursor # 0) =>
        nodes = PassX(PassY([i \in 1..Len(nodes) |->
                                [nodes[i] EXCEPT !.x = 0, !.y = 0]], edges))

\* ------------------------------------------------------------------------
\* C7  A node that is the target of no dependency or hierarchy edge gets
\*     y = 100, whatever relationship edges point at it and whatever edges
\*     leave it.
\* ------------------------------------------------------------------------
C7_RootDepthZero ==
    Placed =>
        \A i \in 1..Len(nodes) :
            Parents(nodes[i].id) = {} => nodes[i].y = 100

\* a root that a relationship edge points at and a dependency edge leaves
C7_Witness ==
    /\ Placed
    /\ \E i \in 1..Len(nodes) :
          /\ Parents(nodes[i].id) = {}
          /\ \E e \in edges : e.type = "relationship" /\ e.target = nodes[i].id
          /\ \E e \in DepOrHier : e.source = nodes[i].id
          /\ nodes[i].y = 100

\* ------------------------------------------------------------------------
\* C8  A dependency/hierarchy edge with a source or target that is no
\*     listed node has no effect: every node gets the y it would get
\*     without that edge.  (Refuted: X->A puts A at depth 1.)
\* ------------------------------------------------------------------------
C8_DanglingEdgeNoEffect ==
    Placed =>
        \A e \in DepOrHier :
            (e.source \notin ListedIds \/ e.target \notin ListedIds) =>
                \A i \in 1..Len(nodes) :
                    nodes[i].y = calculateYPosition(nodes[i], edges \ {e})

\* ------------------------------------------------------------------------
\* C9  After placeNodes two nodes with distinct ids and the same y have
\*     different x.
\* ------------------------------------------------------------------------
C9_NoXCollision ==
    Placed =>
        \A i, j \in 1..Len(nodes) :
            (nodes[i].id # nodes[j].id /\ nodes[i].y = nodes[j].y)
                => nodes[i].x # nodes[j].x

\* one tier, groups met in the order concept, entity: the second concept
\* node is placed before the entity node that precedes it in the array
C9_Witness ==
    /\ Placed
    /\ Len(nodes) >= 3
    /\ nodes[1].type = "concept" /\ nodes[2].type = "entity"
    /\ nodes[3].type = "concept"
    /\ nodes[1].y = nodes[2].y /\ nodes[2].y = nodes[3].y
    /\ nodes[1].x = 100 /\ nodes[3].x = 300 /\ nodes[2].x = 600

\* ------------------------------------------------------------------------
\* C10 After the territory-packing step every node listed in a territory's
\*     nodeIds has its 180x80 card inside that territory's padded interior,
\*     for member counts 1..12.
\* ------------------------------------------------------------------------
Lists(t, id) == \E j \in 1..Len(t.nodeIds) : t.nodeIds[j] = id

CardInside(n, t) ==
    /\ t.x + 20 <= n.x
    /\ n.x + 180 <= t.x + t.w - 20
    /\ t.y + 60 + 20 <= n.y
    /\ n.y + 80 <= t.y + t.h - 20

InTerritory(n) == \E k \in 1..Len(territories) : Lists(territories[k], n.id)

CardsIntersect(a, b) ==
    /\ a.x < b.x + 180 /\ b.x < a.x + 180
    /\ a.y < b.y + 80 /\ b.y < a.y + 80

\* every territory created has between 1 and 12 members, no id listed twice
CountsInRange ==
    /\ \A k \in 1..Len(territories) : Len(territories[k].nodeIds) \in 1..12
    /\ \A k, m \in 1..Len(territories) :
          \A i \in 1..Len(territories[k].nodeIds) :
             \A j \in 1..Len(territories[m].nodeIds) :
                territories[k].nodeIds[i] = territories[m].nodeIds[j]
                    => (k = m /\ i = j)

\* (Refuted: the territory of index 3 is put at y = 100 + its own height
\* + 50 = 500, under the territory of index 0 only when that one is no
\* taller than 350; with 9 members the territory of index 0 reaches down
\* to y = 580 and its ninth card and the first card of the territory of
\* index 3 are both at (120, 580).)
C11_NoCardOverlap ==
    CountsInRange =>
        \A i, j \in 1..Len(nodes) :
            (i # j /\ InTerritory(nodes[i]) /\ InTerritory(nodes[j]))
                => ~CardsIntersect(nodes[i], nodes[j])

\* ------------------------------------------------------------------------
\* C12 The territory of index k is at column k mod 3 and row k div 3, the
\*     first at (100, 100); each cell is offset by the maximum box width of
\*     the previous columns and the maximum box height of the previous rows
\*     plus 50, so a territory of a later row starts below the tallest box
\*     of every earlier row.
\* ------------------------------------------------------------------------
GridCol(k) == (k - 1) % 3

GridRow(k) == (k - 1) \div 3

\* widest box of column c plus the spacing; 0 for an empty column
ColumnExtent(c) ==
    LET ws == {territories[m].w :
                  m \in {q \in 1..Len(territories) : GridCol(q) = c}}
    IN  IF ws = {} THEN 0 ELSE MaxOf(ws) + 50

\* tallest box of row r plus the spacing
RowExtent(r) ==
    LET hs == {territories[m].h :
                  m \in {q \in 1..Len(territories) : GridRow(q) = r}}
    IN  IF hs = {} THEN 0 ELSE MaxOf(hs) + 50

RECURSIVE SumExtent(_, _, _)
SumExtent(Ext(_), n, acc) ==
    IF n = 0 THEN acc ELSE SumExtent(Ext, n - 1, acc + Ext(n - 1))

\* (Refuted: y is 100 + row * (the territory's own height + 50); the heights
\* of the earlier rows are not looked at.)
C12_GridOffsets ==
    \A k \in 1..Len(territories) :
        /\ (k = 1 => territories[k].x = 100 /\ territories[k].y = 100)
        /\ territories[k].x = SumExtent(ColumnExtent, GridCol(k), 100)
        /\ territories[k].y = SumExtent(RowExtent, GridRow(k), 100)
        /\ \A m \in 1..Len(territories) :
              GridRow(m) < GridRow(k) =>
                  territories[k].y >= territories[m].y + territories[m].h

\* ------------------------------------------------------------------------
\* Vocabulary of the drag properties
\* ------------------------------------------------------------------------
\* the node being dragged, as a set: empty when it is not in the node array
Dragged == {i \in 1..Len(nodes) : dragging.active /\ nodes[i].id = dragging.id}

\* the owning territory of id: the first one that lists it
Owners(id) ==
    {k \in 1..Len(territories) :
        /\ Lists(territories[k], id)
        /\ \A m \in 1..(k - 1) : ~Lists(territories[m], id)}

\* the last handler was a pointer-move that found the dragged node
Moved(i) == lastCall = "onNodeDragMove" /\ i \in Dragged

LoX(t) == t.x + 20 + 90

HiX(t) == t.x + t.w - 90 - 20

LoY(t) == t.y + 60 + 20 + 40

HiY(t) == t.y + t.h - 40 - 20

\* the unclamped target of the last pointer-move
TargetX == pointer.x - dragging.ox

TargetY == pointer.y - dragging.oy

\* ------------------------------------------------------------------------
\* C13 After every pointer-move handled during a drag of a node that has an
\*     owning territory T, T.x+20+90 <= x <= T.x+T.w-90-20 and
\*     T.y+60+20+40 <= y <= T.y+T.h-40-20, for every territory size and
\*     pointer position.
\* ------------------------------------------------------------------------
\* The claim as stated. (Refuted: in a territory narrower than 220 or lower
\* than 180 the lower bound is above the upper bound and the node is put on
\* the lower bound.)
C13_DragInsideTerritory ==
    \A i \in 1..Len(nodes) : \A k \in Owners(nodes[i].id) :
        Moved(i) =>
            /\ LoX(territories[k]) <= nodes[i].x
            /\ nodes[i].x <= HiX(territories[k])
            /\ LoY(territories[k]) <= nodes[i].y
            /\ nodes[i].y <= HiY(territories[k])

\* Amended: the bounds hold on the x axis in a territory at least 220 wide
\* and on the y axis in a territory at least 180 high; on an axis where the
\* territory is smaller the node is put on the lower bound.
C13_DragInsideRoomyTerritory ==
    \A i \in 1..Len(nodes) : \A k \in Owners(nodes[i].id) :
        Moved(i) =>
            /\ LoX(territories[k]) <= nodes[i].x
            /\ territories[k].w >= 220 => nodes[i].x <= HiX(territories[k])
            /\ territories[k].w < 220 => nodes[i].x = LoX(territories[k])
            /\ LoY(territories[k]) <= nodes[i].y
            /\ territories[k].h >= 180 => nodes[i].y <= HiY(territories[k])
            /\ territories[k].h < 180 => nodes[i].y = LoY(territories[k])

\* a move far to the lower right of a 420x350 territory that another
\* territory further right also lists: the node is on the right and bottom
\* bounds of the first
C13_Witness ==
    /\ Len(nodes) = 1 /\ Moved(1)
    /\ Len(territories) = 2 /\ Owners(nodes[1].id) = {1}
    /\ territories[1].w = 420
    /\ TargetX > 600 /\ TargetY > 600
    /\ nodes[1].x = 410 /\ nodes[1].y = 390

\* ------------------------------------------------------------------------
\* C14 The drag clamp is idempotent: a target inside the clamp interval is
\*     returned unchanged, clamping a clamped position changes nothing, and
\*     a target outside the interval is moved, per axis, onto the nearest
\*     bound of the interval.
\* ------------------------------------------------------------------------
Dist(a, b) == IF a >= b THEN a - b ELSE b - a

Nearest(v, lo, hi) == IF Dist(v, lo) <= Dist(v, hi) THEN lo ELSE hi

\* what the claim asks of one axis: target v, result r, bounds lo and hi
ClampedAsClaimed(v, r, lo, hi) ==
    /\ (lo <= v /\ v <= hi) => r = v
    /\ ~(lo <= v /\ v <= hi) => r = Nearest(v, lo, hi)

\* The claim as stated. (Refuted: when the lower bound is above the upper
\* bound a target left of both is moved to the lower bound, which is the
\* farther of the two.)
C14_ClampIdempotent ==
    \A i \in 1..Len(nodes) : \A k \in Owners(nodes[i].id) :
        Moved(i) =>
            LET t == territories[k]
            IN  /\ ClampedAsClaimed(TargetX, nodes[i].x, LoX(t), HiX(t))
                /\ ClampedAsClaimed(TargetY, nodes[i].y, LoY(t), HiY(t))
                /\ ClampToTerritory(t, nodes[i]).x = nodes[i].x
                /\ ClampToTerritory(t, nodes[i]).y = nodes[i].y

\* Amended: as stated on an axis whose interval is not empty; on an axis
\* whose lower bound is above the upper bound every target is moved to the
\* lower bound; clamping the result again changes nothing in both cases.
C14_ClampIdempotentNonEmpty ==
    \A i \in 1..Len(nodes) : \A k \in Owners(nodes[i].id) :
        Moved(i) =>
            LET t == territories[k]
            IN  /\ IF LoX(t) <= HiX(t)
                   THEN ClampedAsClaimed(TargetX, nodes[i].x, LoX(t), HiX(t))
                   ELSE nodes[i].x = LoX(t)
                /\ IF LoY(t) <= HiY(t)
                   THEN ClampedAsClaimed(TargetY, nodes[i].y, LoY(t), HiY(t))
                   ELSE nodes[i].y = LoY(t)
                /\ ClampToTerritory(t, nodes[i]).x = nodes[i].x
                /\ ClampToTerritory(t, nodes[i]).y = nodes[i].y

\* a move whose target is right of the interval on x and inside it on y:
\* x is the upper bound, y is the target
C14_Witness ==
    /\ Len(nodes) = 1 /\ Moved(1)
    /\ Owners(nodes[1].id) = {1} /\ territories[1].w = 420
    /\ TargetX > HiX(territories[1]) /\ nodes[1].x = HiX(territories[1])
    /\ LoY(territories[1]) < TargetY /\ TargetY < HiY(territories[1])
    /\ nodes[1].y = TargetY

\* ------------------------------------------------------------------------
\* C15 The grab offset is written only by drag start, and left unchanged by
\*     every pointer-move and by drag end; a dragged node that no territory
\*     lists is put by each pointer-move at pointer minus offset, unclamped.
\* ------------------------------------------------------------------------
OffsetWrittenOnlyByDragStart ==
    (dragging'.ox # dragging.ox \/ dragging'.oy # dragging.oy)
        => lastCall' = "onNodeDragStart"

FreeNodeFollowsPointer ==
    \A i \in 1..Len(nodes) :
        (Moved(i) /\ Owners(nodes[i].id) = {}) =>
            (nodes[i].x = TargetX /\ nodes[i].y = TargetY)

C15_OffsetConstantFreeDrag ==
    /\ [][OffsetWrittenOnlyByDragStart]_vars
    /\ []FreeNodeFollowsPointer

\* a free node grabbed off its centre and moved past the territory that is
\* there: it is at pointer minus offset, right of and below the territory
C15_Witness ==
    /\ Len(nodes) = 1 /\ Moved(1)
    /\ Owners(nodes[1].id) = {} /\ Len(territories) = 1
    /\ dragging.ox = 50 /\ dragging.oy = -20
    /\ pointer.x = 900 /\ pointer.y = 900
    /\ nodes[1].x = 850 /\ nodes[1].y = 920

\* ------------------------------------------------------------------------
\* C16 When a drag ends the boundary-warning flag of the node that was being
\*     dragged is cleared in every case, also when deleteNode removed the
\*     node between drag start and drag end.
\* ------------------------------------------------------------------------
\* (Refuted: drag end clears the flag of the node it finds in the node
\* array; the object deleteNode spliced out is not found and keeps it.)
FlagClearedAtDragEnd ==
    (dragging.active /\ lastCall' = "onNodeDragEnd") =>
        /\ \A i \in 1..Len(nodes') :
              nodes'[i].id = dragging.id => ~nodes'[i].boundaryWarned
        /\ \A o \in detached' :
              o.id = dragging.id => ~o.boundaryWarned

C16_FlagClearedAtDragEnd == [][FlagClearedAtDragEnd]_vars

\* ------------------------------------------------------------------------
\* C17 Within one drag the boundary notification is emitted on the first
\*     clamped move and suppressed on the following clamped moves only until
\*     the node leaves the boundary: after a move that is not clamped the
\*     next clamped move emits it again.
\* ------------------------------------------------------------------------
\* the dragged node is not where the pointer minus the offset is: the last
\* move was clamped
AtBoundary(ns) ==
    \E i \in 1..Len(ns) :
        /\ ns[i].id = dragging.id
        /\ (ns[i].x # pointer.x - dragging.ox \/ ns[i].y # pointer.y - dragging.oy)

\* a pointer-move of the running drag that found the node
MoveStep ==
    /\ dragging.active /\ dragging' = dragging
    /\ lastCall' = "onNodeDragMove"
    /\ \E i \in 1..Len(nodes) : nodes[i].id = dragging.id

\* (Refuted: the flag is cleared by drag end only; a node that left the
\* boundary and is clamped again in the same drag is not notified again.)
NotifiedOnEveryArrival ==
    MoveStep =>
        LET before == AtBoundary(nodes)
            after == \E i \in 1..Len(nodes') :
                        /\ nodes'[i].id = dragging.id
                        /\ (nodes'[i].x # pointer'.x - dragging.ox
                              \/ nodes'[i].y # pointer'.y - dragging.oy)
        IN  /\ (~before /\ after) => logged'
            /\ (before /\ after) => ~logged'
            /\ ~after => ~logged'

C17_NotifiedOnEveryArrival == [][NotifiedOnEveryArrival]_vars

\* ------------------------------------------------------------------------
\* C18 Same-tier nodes are laid out group by group: the nodes of a group
\*     occupy consecutive x slots in array order, groups do not interleave,
\*     and groups go left to right in the order in which their key is first
\*     met in the node array:
\*     x = 100 + groupIndex*100 + (nodesInEarlierGroups + indexWithinGroup)*200.
\*     Node ids are unique, as the data model has them.
\* ------------------------------------------------------------------------
UniqueIds == \A i, j \in 1..Len(nodes) : nodes[i].id = nodes[j].id => i = j

GroupKey(i) == IF nodes[i].type = "" THEN "default" ELSE nodes[i].type

Tier(i) == {j \in 1..Len(nodes) : nodes[j].y = nodes[i].y}

\* the first node of the tier of i that has the key of i
FirstOfGroup(i) == MinOf({j \in Tier(i) : GroupKey(j) = GroupKey(i)})

GroupIndexOf(i) ==
    Cardinality({FirstOfGroup(j) : j \in {m \in Tier(i) : FirstOfGroup(m) < FirstOfGroup(i)}})

NodesInEarlierGroups(i) ==
    Cardinality({j \in Tier(i) : FirstOfGroup(j) < FirstOfGroup(i)})

IndexWithinGroup(i) ==
    Cardinality({j \in Tier(i) : GroupKey(j) = GroupKey(i) /\ j < i})

AnyMembership == \E i \in 1..Len(nodes) : nodes[i].territories # << >>

MemberKey(i) ==
    IF AnyMembership
    THEN (IF nodes[i].territories = << >> THEN "no-territory"
          ELSE Head(nodes[i].territories))
    ELSE GroupKey(i)

FirstOfMemberGroup(i) == MinOf({j \in Tier(i) : MemberKey(j) = MemberKey(i)})

\* the slot of node i when the tier is laid out by MemberKey
MemberSlotX(i) ==
    LET earlier == {j \in Tier(i) : FirstOfMemberGroup(j) < FirstOfMemberGroup(i)}
        groupIndex == Cardinality({FirstOfMemberGroup(j) : j \in earlier})
        within == Cardinality({j \in Tier(i) : MemberKey(j) = MemberKey(i) /\ j < i})
    IN  100 + groupIndex * 100 + (Cardinality(earlier) + within) * 200

\* (Refuted for src/services/nodePositioning.js, the module the application
\* and test-positioning.js import: its groupByType reads node.type only.)
C19_GroupsByFirstTerritory ==
    phase \in {"placed", "placedWithOptions"} =>
        \A i \in 1..Len(nodes) : nodes[i].x = MemberSlotX(i)

\* the module of part_002 does group by first territory
WithOptionsGroupsByFirstTerritory ==
    phase = "placedWithOptions" =>
        \A i \in 1..Len(nodes) : nodes[i].x = MemberSlotX(i)

\* ------------------------------------------------------------------------
\* C20 placeNodes is deterministic and idempotent: run again on its own
\*     output, with the same edges, it gives every node the x and y it has.
\* ------------------------------------------------------------------------
SecondRunChangesNothing ==
    (phase = "placed" /\ phase' = "again") =>
        /\ Len(nodes') = Len(nodes)
        /\ \A i \in 1..Len(nodes) :
              nodes'[i].x = nodes[i].x /\ nodes'[i].y = nodes[i].y

C20_PlaceNodesIdempotent == [][SecondRunChangesNothing]_vars

\* after the second run: a root over two nodes of one tier, side by side
C20_Witness ==
    /\ phase = "again" /\ Len(nodes) = 3
    /\ nodes[1].y = 100 /\ nodes[2].y = 250 /\ nodes[3].y = 250
    /\ nodes[1].x = 100 /\ nodes[2].x = 100 /\ nodes[3].x = 300

\* ------------------------------------------------------------------------
\* C21 Edges of type relationship or similarity, and edges without a type,
\*     never influence the layout: with those edges replaced by any other
\*     set of such edges (added, removed, retargeted), placeNodes gives
\*     every node the same x and y.
\* ------------------------------------------------------------------------
Unplaced(ns) == [i \in 1..Len(ns) |-> [ns[i] EXCEPT !.x = 0, !.y = 0]]

OpaqueOf(es) == {e \in es : e.type \notin {"dependency", "hierarchy"}}

C21_OpaqueEdgesNoEffect ==
    Placed =>
        \A O \in SubsetsUpTo(OpaqueEdges(Len(nodes)), OpaqueMaxOther) :
            PassX(PassY(Unplaced(nodes), (edges \ OpaqueOf(edges)) \cup O)) = nodes

\* two nodes of one tier joined by an edge that is no dependency, while a
\* third node sits a tier lower
C21_Witness ==
    /\ Placed
    /\ \E e \in OpaqueOf(edges) : \E i, j \in 1..Len(nodes) :
          /\ i # j
          /\ nodes[i].id = e.source /\ nodes[j].id = e.target
          /\ nodes[i].y = nodes[j].y
    /\ \E i \in 1..Len(nodes) : nodes[i].y = 250

\* ------------------------------------------------------------------------
\* C22 After any sequence of deleteNode calls on a state with no dangling
\*     references, for each deleted id no node has that id, no edge has it
\*     as source or target and no territory's nodeIds contains it, while
\*     all other nodes and all edges not touching a deleted node are
\*     unchanged; deleteNode on an unknown id changes nothing.
\*     Stated per call: from a state with unique node and edge ids and no
\*     dangling reference, a call leaves such a state again, so the
\*     statement for a sequence follows call by call.
\*     (Refuted: a membership list that names the node twice keeps one
\*     entry.)
\* ------------------------------------------------------------------------
SeqRange(q) == {q[i] : i \in 1..Len(q)}

UniqueEdgeIds ==
    \A i, j \in 1..Len(edges) : edges[i].id = edges[j].id => i = j

NoDanglingRefs ==
    /\ \A i \in 1..Len(edges) :
          edges[i].source \in ListedIds /\ edges[i].target \in ListedIds
    /\ \A t \in 1..Len(territories) : SeqRange(territories[t].nodeIds) \subseteq ListedIds

\* the id of the node this step took out of the array; "" when none
DeletedNow ==
    IF lastCall' = "deleteNode" /\ Len(nodes') < Len(nodes)
    THEN CHOOSE d \in ListedIds : d \notin {nodes'[i].id : i \in 1..Len(nodes')}
    ELSE ""

DeleteCascades ==
    (lastCall' = "deleteNode" /\ UniqueIds /\ UniqueEdgeIds /\ NoDanglingRefs) =>
        IF Len(nodes') < Len(nodes)
        THEN LET d == DeletedNow
             IN  /\ nodes' = SelectSeq(nodes, LAMBDA n : n.id # d)
                 /\ edges' = SelectSeq(edges, LAMBDA e : e.source # d /\ e.target # d)
                 /\ Len(territories') = Len(territories)
                 /\ \A t \in 1..Len(territories) :
                       territories'[t].nodeIds =
                           SelectSeq(territories[t].nodeIds, LAMBDA id : id # d)
        ELSE UNCHANGED <<nodes, edges, territories>>

C22_DeleteCascades == [][DeleteCascades]_vars

\* ------------------------------------------------------------------------
\* C23 When depth resolution exceeds its recursion bound on a pathological
\*     input, it ends in a distinct, recoverable GraphTooDeep outcome and
\*     not in an uncontrolled failure: placeNodes never ends by the
\*     engine's RangeError with the layout half written.
\*     (Refuted: the source has no depth limit and no GraphTooDeep.)
\* ------------------------------------------------------------------------
C23_GraphTooDeepSignalled == phase # "RangeError"

\* ------------------------------------------------------------------------
\* C24 At most one map-generation request is in flight at any time: a
\*     generateMap call that arrives while isGenerating is true returns
\*     without clearing or modifying the node, edge and territory
\*     collections and without issuing a request.
\* ------------------------------------------------------------------------
OneInFlight == inFlight <= 1

\* a step of generateMap taken while isGenerating is set is the answer to
\* the request in flight, or changes nothing
BusyCallInert ==
    (isGenerating /\ lastCall' = "generateMap") =>
        /\ inFlight' <= inFlight
        /\ inFlight' = inFlight => UNCHANGED <<nodes, edges, territories, isGenerating>>

C24_SingleRequestInFlight == []OneInFlight /\ [][BusyCallInert]_vars

\* generateMap has just returned at its guard: a node added while the
\* request is in flight is still there
C24_Witness ==
    /\ isGenerating /\ inFlight = 1
    /\ lastCall = "generateMap"
    /\ nodes # << >>

\* ------------------------------------------------------------------------
\* C26 Every generateMap call that passed the guard eventually sets
\*     isGenerating back to false, whether the request succeeds, the server
\*     answers with an error, the response is malformed or saving the
\*     snapshot throws; isGenerating is never left true with no request in
\*     flight.
\* ------------------------------------------------------------------------
NeverStuckGenerating == isGenerating => inFlight > 0

C26_GeneratingIsReset ==
    /\ []NeverStuckGenerating
    /\ (isGenerating ~> ~isGenerating)

\* the call has ended by the error saveSnapshot threw, the flag is reset
C26_Witness ==
    /\ response.outcome = "map" /\ ~response.saved
    /\ ~isGenerating /\ inFlight = 0
    /\ lastCall = "generateMap"

\* ------------------------------------------------------------------------
\* C27 When a generateMap call completes successfully, the node, edge and
\*     territory collections hold exactly the content returned by that
\*     generation request, for every interleaving of other UI events
\*     (quickAddNode, loadSnapshot, deleteNode) with the request while it
\*     is in flight.
\*     (Refuted: a node added while the request is in flight stays in the
\*     collection and is positioned with the nodes of the answer.)
\* ------------------------------------------------------------------------
IdsOf(q) == [i \in 1..Len(q) |-> q[i].id]

SuccessHoldsResponse ==
    (isGenerating /\ ~isGenerating' /\ response'.outcome = "map" /\ response'.saved) =>
        LET mapData == response'.mapData
        IN  /\ IdsOf(nodes') = IdsOf(mapData.nodes)
            /\ Len(edges') = Len(mapData.edges)
            /\ \A k \in 1..Len(edges') :
                  /\ edges'[k].source = mapData.edges[k].source
                  /\ edges'[k].target = mapData.edges[k].target
            /\ IdsOf(territories') = IdsOf(mapData.territories)

C27_CollectionsHoldResponse == [][SuccessHoldsResponse]_vars

\* ------------------------------------------------------------------------
\* C25: callWithRetry invokes the API call at most `retries` times and
\* re-invokes it only after a rate-limit (HTTP 429) failure; a failure that
\* is not a rate limit is thrown to the caller at once, without another
\* attempt.
\* ------------------------------------------------------------------------
AtMostRetriesCalls ==
    retryPc # "idle" => Len(calls) + (IF retryPc = "calling" THEN 1 ELSE 0) <= retries

\* every call but the last one made ended in a 429
ReinvokedOnlyAfterRateLimit ==
    \A k \in 1..Len(calls) :
        (k < Len(calls) \/ retryPc = "calling") => calls[k] = 429

\* a failure other than a 429 has been thrown
OtherFailureThrownAtOnce ==
    (Len(calls) > 0 /\ calls[Len(calls)] \in ErrorStatuses \ {429})
        => retryPc = "thrownError"

C25_RetryOnlyOnRateLimit ==
    /\ AtMostRetriesCalls
    /\ ReinvokedOnlyAfterRateLimit
    /\ OtherFailureThrownAtOnce

\* ------------------------------------------------------------------------
\* C28: every position the territory packer assigns to a member node lies
\* inside the interval the drag constraint clamps to for the same
\* territory, so a drag start on a freshly packed node followed by a
\* pointer-move with zero displacement leaves the node where the packer
\* put it.
\* ------------------------------------------------------------------------
\* the node at index i is where positionNodeInTerritory puts it
AtPackedPosition(i) ==
    LET k == FindTerritory(territories, nodes[i].id)
    IN  /\ k # 0
        /\ LET position == positionNodeInTerritory(territories[k],
                                indexOf(territories[k].nodeIds, nodes[i].id))
           IN  nodes[i].x = position.x /\ nodes[i].y = position.y

\* a pointer-move with zero displacement right after the drag start on a
\* node at its packed position
InPlaceMoveOfPackedNode ==
    /\ lastCall = "onNodeDragStart"
    /\ lastCall' = "onNodeDragMove"
    /\ pointer' = pointer
    /\ \E i \in Dragged : AtPackedPosition(i)

PackedNodeStays == InPlaceMoveOfPackedNode => nodes' = nodes

C28_PackedInsideDragInterval == [][PackedNodeStays]_vars

\* ------------------------------------------------------------------------
\* C29: whenever no drag is active, no node in the collection carries the
\* boundary-warning flag and pointer-move events change no node's position,
\* after any sequence of drag-start, pointer-move, drag-end and deleteNode
\* events, including a drag start that arrives while another drag is still
\* active.
\* ------------------------------------------------------------------------
NoFlagWhenIdle ==
    ~dragging.active => \A i \in 1..Len(nodes) : ~nodes[i].boundaryWarned

IdleMoveInert ==
    (~dragging.active /\ lastCall' = "onNodeDragMove") => nodes' = nodes

C29_IdleMeansClean == []NoFlagWhenIdle /\ [][IdleMoveInert]_vars

\* ------------------------------------------------------------------------
\* C30: a debounced save that is still pending when immediateAutoSave is
\* called never writes to storage afterwards, and of several debounced
\* saves requested within 500ms of each other only the last one writes; so
\* a save requested earlier never overwrites the data of a save requested
\* later.
\* ------------------------------------------------------------------------
\* the only timer that can still write is that of the latest request, and
\* after immediateAutoSave there is none
PendingIsLatest ==
    /\ \A t \in timers : t.id = saveTimeout /\ t.data.seq = Len(requests)
    /\ saveTimeout = 0 => timers = {}

\* a timer writes no earlier than 500 ms after its request, so a request
\* made within 500 ms finds it pending
FiresAfterDebounce ==
    timers' # timers /\ requests' = requests
        => \A t \in timers \ timers' : t.due <= now

\* what a step writes to the primary key is the data of the latest request
\* made, and it replaces data of no later request
WritesLatest ==
    storage'.primary # storage.primary
        => /\ storage'.primary = Len(requests')
           /\ storage'.primary > storage.primary

SaveStep == FiresAfterDebounce /\ WritesLatest

\* a debounced save followed by another request less than 500 ms later is
\* in neither storage item
OnlyLastOfBurstStored ==
    \A k \in {storage.primary, storage.backup} \ {0} :
        requests[k].kind = "debounced"
            => \A j \in (k + 1)..Len(requests) :
                    requests[j].at >= requests[k].at + DEBOUNCE_MS

C30_EarlierNeverOverwritesLater ==
    /\ []PendingIsLatest
    /\ []OnlyLastOfBurstStored
    /\ [][SaveStep]_vars

\* request 1 was a debounced save of valid data, still pending when the
\* immediate save 2 was made; save 2 wrote, save 1 has not written although
\* the time at which it was due has passed
C30_Witness ==
    /\ Len(requests) >= 2
    /\ requests[1].kind = "debounced" /\ requests[1].valid
    /\ requests[2].kind = "immediate"
    /\ requests[2].at < requests[1].at + DEBOUNCE_MS
    /\ storage = [primary |-> 2, backup |-> 0]
    /\ now > requests[1].at + DEBOUNCE_MS

====
